---- MODULE Spec2Model ----
(***************************************************************************)
(* Optimal-play engine for Yahtzee-family games: the hand scorers, the     *)
(* Yahtzee-bonus policies, the three mutually recursive decision functions *)
(* (probability_to_roll, choose_reroll, choose_field) and the ViewModel    *)
(* that drives them.                                                       *)
(*                                                                         *)
(* Vectors are 0-indexed functions (as in the source); hands are TLA+      *)
(* sequences of <<die, pip>> with die = <<min, max>>.  Expectations are    *)
(* exact rationals <<numerator, denominator>>; every die of the rules the  *)
(* decision functions are run on is two-sided, so all probabilities are    *)
(* dyadic and the source's f64 arithmetic is exact on them.                *)
(***************************************************************************)
EXTENDS Integers, Sequences, FiniteSets, TLC

\* ------------------------------------------------------------------------
\* global.rs
\* ------------------------------------------------------------------------
D6 == <<1, 6>>
D10 == <<0, 9>>
REROLLS == 2
US == 0
LS == 1
YAHTZEE_SIZE == 5
YAHTZEE_INDEX == 5
FULL_HOUSE_SCORE == 25
SMALL_STRAIGHT_SCORE == 30
LARGE_STRAIGHT_SCORE == 40
YAHTZEE_SCORE == 50
US_LENGTH == 6
LS_LENGTH == 7
\* Throws per turn.  strategy.rs:371 starts a fresh turn (empty hand) with
\* THROWS - 1 rerolls, the number caching.rs:34 passes as REROLLS.
THROWS == REROLLS + 1

\* ------------------------------------------------------------------------
\* Helpers: 0-indexed vectors, sums, rationals
\* ------------------------------------------------------------------------
Vec(s) == [i \in 0..(Len(s) - 1) |-> s[i + 1]]
VLen(v) == Cardinality(DOMAIN v)

RECURSIVE SumSeq(_)
SumSeq(s) == IF s = <<>> THEN 0 ELSE Head(s) + SumSeq(Tail(s))

RECURSIVE Pow(_, _)
Pow(b, e) == IF e = 0 THEN 1 ELSE b * Pow(b, e - 1)

RECURSIVE GCD(_, _)
GCD(a, b) == IF b = 0 THEN a ELSE GCD(b, a % b)

\* Rationals <<numerator, denominator>> in lowest terms, denominator > 0
RNorm(n, d) == <<n \div GCD(n, d), d \div GCD(n, d)>>
RInt(n) == <<n, 1>>
RAdd(a, b) == RNorm(a[1] * b[2] + b[1] * a[2], a[2] * b[2])
RMul(a, b) == RNorm(a[1] * b[1], a[2] * b[2])
RGt(a, b) == a[1] * b[2] > b[1] * a[2]

\* Pips of a partial hand (strategy.rs:301)
Pips(have) == [i \in 1..Len(have) |-> have[i][2]]

\* ------------------------------------------------------------------------
\* hands.rs
\* ------------------------------------------------------------------------
RECURSIVE TakeWhileEq(_, _, _)
TakeWhileEq(hand, i, field) ==
    IF i > Len(hand) \/ hand[i] # field THEN 0
    ELSE 1 + TakeWhileEq(hand, i + 1, field)

RECURSIVE SkipWhileNe(_, _, _)
SkipWhileNe(hand, i, field) ==
    IF i > Len(hand) \/ hand[i] = field THEN i
    ELSE SkipWhileNe(hand, i + 1, field)

generic_upper_section(field, hand) ==
    TakeWhileEq(hand, SkipWhileNe(hand, 1, field), field) * field

total(hand) == SumSeq(hand)

\* Length of the run of equal pips starting at position i
RECURSIVE RunLen(_, _)
RunLen(hand, i) ==
    IF i < Len(hand) /\ hand[i + 1] = hand[i] THEN 1 + RunLen(hand, i + 1) ELSE 1

\* Run lengths > 1 in order of appearance
RECURSIVE Runs(_, _)
Runs(hand, i) ==
    IF i > Len(hand) THEN <<>>
    ELSE LET count == RunLen(hand, i)
         IN (IF count > 1 THEN <<count>> ELSE <<>>) \o Runs(hand, i + count)

RECURSIVE InsertSorted(_, _)
InsertSorted(x, s) ==
    IF s = <<>> THEN <<x>>
    ELSE IF x < Head(s) THEN <<x>> \o s
    ELSE <<Head(s)>> \o InsertSorted(x, Tail(s))

RECURSIVE SortNums(_)
SortNums(s) == IF s = <<>> THEN <<>> ELSE InsertSorted(Head(s), SortNums(Tail(s)))

identical(hand) == SortNums(Runs(hand, 1))

\* Requirements that may share a group: every one finds some group
MatchAnyGroup(required, i, groups, j) ==
    \A r \in i..Len(required) : \E g \in j..Len(groups) : groups[g] >= required[r]

\* Walk `required` against the iterator `present` (position j in groups);
\* TRUE iff every requirement found a group.
RECURSIVE MatchGroups(_, _, _, _)
MatchGroups(required, i, groups, j) ==
    IF i > Len(required) THEN TRUE
    ELSE IF j > Len(groups) THEN FALSE
    ELSE IF groups[j] >= required[i] THEN MatchGroups(required, i + 1, groups, j + 1)
    ELSE MatchGroups(required, i, groups, j + 1)

\* `score` is the value of score_function(hand)
generic_identical(required, score, hand) ==
    IF MatchGroups(required, 1, identical(hand), 1) THEN score ELSE 0

\* An inner loop that a repeated pip ends
RECURSIVE StraightNoRepeats(_, _, _, _)
StraightNoRepeats(hand, pip, count, j) ==
    IF j > Len(hand) THEN <<count, j>>
    ELSE IF hand[j] = pip + count THEN StraightNoRepeats(hand, pip, count + 1, j + 1)
    ELSE <<count, j>>

\* Inner loop of generic_straight: returns <<count, next position>>
RECURSIVE StraightInner(_, _, _, _)
StraightInner(hand, pip, count, j) ==
    IF j > Len(hand) THEN <<count, j>>
    ELSE IF hand[j] <= pip + count
         THEN StraightInner(hand, pip, IF hand[j] = pip + count THEN count + 1 ELSE count, j + 1)
         ELSE <<count, j>>

RECURSIVE StraightOuter(_, _, _, _)
StraightOuter(length, score, hand, i) ==
    IF i > Len(hand) THEN 0
    ELSE LET r == StraightInner(hand, hand[i], 1, i + 1)
         IN IF r[1] >= length THEN score ELSE StraightOuter(length, score, hand, r[2])

generic_straight(length, score, hand) == StraightOuter(length, score, hand, 1)

\* ------------------------------------------------------------------------
\* rules.rs: field tables.  A field is named by its display name; the
\* scoring closure attached to the name is ScoreFunction.
\* ------------------------------------------------------------------------
D2 == <<1, 2>>

UpperSectionNames ==
    <<"Count and Add Only Aces", "Count and Add Only Twos", "Count and Add Only Threes",
      "Count and Add Only Fours", "Count and Add Only Fives", "Count and Add Only Sixes">>

build_upper_section_rules == Vec(UpperSectionNames)

build_lower_section_rules(extreme) ==
    Vec(<<"Three of a Kind", "Four of a Kind">>
        \o (IF extreme THEN <<"Two Pairs", "Three Pairs", "Two Triples">> ELSE <<>>)
        \o <<"Full House">>
        \o (IF extreme THEN <<"Grand Full House">> ELSE <<>>)
        \o <<"Small Straight", "Large Straight">>
        \o (IF extreme THEN <<"Highway">> ELSE <<>>)
        \o <<"Yahtzee">>
        \o (IF extreme THEN <<"Yahtzee Extreme", "10 or less", "33 or more">> ELSE <<>>)
        \o <<"Chance">>
        \o (IF extreme THEN <<"Super Chance">> ELSE <<>>))

UpperIndex(name) == CHOOSE i \in 1..Len(UpperSectionNames) : UpperSectionNames[i] = name

ScoreFunction(name, hand) ==
    CASE name \in {UpperSectionNames[i] : i \in 1..Len(UpperSectionNames)} ->
            generic_upper_section(UpperIndex(name), hand)
      [] name = "Three of a Kind" -> generic_identical(<<3>>, total(hand), hand)
      [] name = "Four of a Kind" -> generic_identical(<<4>>, total(hand), hand)
      [] name = "Two Pairs" -> generic_identical(<<2, 2>>, total(hand), hand)
      [] name = "Three Pairs" -> generic_identical(<<2, 2, 2>>, 35, hand)
      [] name = "Two Triples" -> generic_identical(<<3, 3>>, 45, hand)
      [] name = "Full House" -> generic_identical(<<2, 3>>, 25, hand)
      [] name = "Grand Full House" -> generic_identical(<<2, 4>>, 45, hand)
      [] name = "Small Straight" -> generic_straight(4, 30, hand)
      [] name = "Large Straight" -> generic_straight(5, 40, hand)
      [] name = "Highway" -> generic_straight(6, 50, hand)
      [] name = "Yahtzee" -> generic_identical(<<5>>, 50, hand)
      [] name = "Yahtzee Extreme" -> generic_identical(<<6>>, 75, hand)
      [] name = "10 or less" -> IF total(hand) <= 10 THEN 40 ELSE 0
      [] name = "33 or more" -> IF total(hand) >= 33 THEN 40 ELSE 0
      [] name = "Chance" -> total(hand)
      [] name = "Super Chance" -> 2 * total(hand)
      \* closures of the rules built in strategy.rs tests
      [] name = "Throw 1" -> hand[1] - 1
      [] name = "Dummy" -> 0
      [] name = "All Twos" -> IF total(hand) = 4 THEN 4 ELSE 0

\* Rules record as strategy.rs reads it: short_name, dice (short_name, dice),
\* chips, fields, us_bonus (threshold, bonus), yahtzee_bonus (short_name).
build_rules(extreme, yahtzee_bonus) ==
    [short_name |-> IF extreme THEN "f" ELSE yahtzee_bonus,
     dice |-> [short_name |-> IF extreme THEN "b" ELSE "a",
               dice |-> IF extreme THEN <<<<D6, 5>>, <<D10, 1>>>> ELSE <<<<D6, 5>>>>],
     chips |-> IF extreme THEN 3 ELSE 0,
     fields |-> Vec(<<build_upper_section_rules, build_lower_section_rules(extreme)>>),
     us_bonus |-> IF extreme THEN [threshold |-> 73, bonus |-> 45]
                  ELSE [threshold |-> 63, bonus |-> 35],
     yahtzee_bonus |-> [short_name |-> yahtzee_bonus]]

\* simple_rules of test_choose_reroll: one coin, two chips, one field
simple_rules_y ==
    [short_name |-> "y",
     dice |-> [short_name |-> "y", dice |-> <<<<D2, 1>>>>],
     chips |-> 2,
     fields |-> Vec(<<Vec(<<>>), Vec(<<"Throw 1">>)>>),
     us_bonus |-> [threshold |-> 2, bonus |-> 0],
     yahtzee_bonus |-> [short_name |-> "NONE"]]

\* simple_rules of test_choose_field: two coins, two upper fields, lower
\* section of four blanks, Chance and the Yahtzee field "All Twos"
simple_rules_z ==
    [short_name |-> "z",
     dice |-> [short_name |-> "z", dice |-> <<<<D2, 2>>>>],
     chips |-> 0,
     fields |-> Vec(<<Vec(<<"Count and Add Only Aces", "Count and Add Only Twos">>),
                      Vec(<<"Dummy", "Dummy", "Dummy", "Dummy", "Chance", "All Twos">>)>>),
     us_bonus |-> [threshold |-> 1, bonus |-> 1],
     yahtzee_bonus |-> [short_name |-> "z"]]

\* The Yahtzee-bonus policy as choose_field calls it:
\* (used, pip, section, field) -> <<score, bonus>>
YahtzeeBonusRules(policy, used, pip, section, field) ==
    CASE policy = "z" -> <<4, 1>>

\* ------------------------------------------------------------------------
\* yahtzee_bonus_rules.rs: the policies on score cards.  A score card holds
\* one score per field, below zero while the field is unused; a policy
\* returns the score cards the bonus may lead to.
\* ------------------------------------------------------------------------
\* A bonus of three times the score of a Yahtzee
TripledScore == 3 * YAHTZEE_SCORE

YAHTZEE_BONUS == 100

\* Fields where a Yahtzee may be used as a joker, and what they score
\* A card without joker fields
NoJokerField(field) == FALSE

IsJokerField(field) == field \in {2, 3, 4}
joker_fields(field) ==
    CASE field = 2 -> 25
      [] field = 3 -> 30
      [] field = 4 -> 40

\* Eligibility that accepts a Yahtzee field scored as zero
eligibleOrZeroed(score_card) == score_card[LS][YAHTZEE_INDEX] >= 0

eligible(score_card) == score_card[LS][YAHTZEE_INDEX] > 0

\* Fields of 0..length-1 that are unused on the card, in order
RECURSIVE UnusedFields(_, _, _)
UnusedFields(section_card, field, length) ==
    IF field >= length THEN <<>>
    ELSE (IF section_card[field] < 0 THEN <<field>> ELSE <<>>)
         \o UnusedFields(section_card, field + 1, length)

\* Cards that give the joker fields their scores instead of zero
JokerCards(bonus_applied, section, fields) ==
    [k \in 1..Len(fields) |->
       [bonus_applied EXCEPT ![section][fields[k]] =
          IF section = LS /\ IsJokerField(fields[k]) THEN joker_fields(fields[k]) ELSE 0]]

\* One card per field of `fields`: bonus_applied with zero in that field
ZeroedCards(bonus_applied, section, fields) ==
    [k \in 1..Len(fields) |-> [bonus_applied EXCEPT ![section][fields[k]] = 0]]

FORCED_JOKER(score_card, pip) ==
    IF ~eligible(score_card) THEN <<>>
    ELSE LET bonus_applied == [score_card EXCEPT ![LS][YAHTZEE_INDEX] = @ + YAHTZEE_BONUS]
             upper_section_pip_index == pip - 1
         IN IF score_card[US][upper_section_pip_index] < 0
            THEN <<[bonus_applied EXCEPT ![US][upper_section_pip_index] = YAHTZEE_SIZE * pip]>>
            ELSE LET free == UnusedFields(score_card[LS], 0, LS_LENGTH)
                     score_cards ==
                         [k \in 1..Len(free) |->
                            [bonus_applied EXCEPT ![LS][free[k]] =
                               IF IsJokerField(free[k]) THEN joker_fields(free[k])
                               ELSE YAHTZEE_SIZE * pip]]
                 IN IF Len(free) = 0
                    THEN ZeroedCards(bonus_applied, US,
                                     UnusedFields(score_card[US], 0, US_LENGTH))
                    ELSE score_cards

\* Lower-section cards that use the joker fields whatever the upper section
RECURSIVE FreeJokerAnyField(_, _, _, _)
FreeJokerAnyField(bonus_applied, pip, upper_section_was_full, fields) ==
    IF fields = <<>> THEN <<>>
    ELSE <<[bonus_applied EXCEPT ![LS][Head(fields)] =
              IF IsJokerField(Head(fields)) THEN joker_fields(Head(fields))
              ELSE YAHTZEE_SIZE * pip]>>
         \o FreeJokerAnyField(bonus_applied, pip, upper_section_was_full, Tail(fields))

\* The lower-section cards of FREE_JOKER: joker fields only when the upper
\* section field of the pip was used already
RECURSIVE FreeJokerLower(_, _, _, _)
FreeJokerLower(bonus_applied, pip, upper_section_was_full, fields) ==
    IF fields = <<>> THEN <<>>
    ELSE LET field == Head(fields)
             rest == FreeJokerLower(bonus_applied, pip, upper_section_was_full, Tail(fields))
         IN IF IsJokerField(field)
            THEN (IF upper_section_was_full
                  THEN <<[bonus_applied EXCEPT ![LS][field] = joker_fields(field)]>>
                  ELSE <<>>) \o rest
            ELSE <<[bonus_applied EXCEPT ![LS][field] = YAHTZEE_SIZE * pip]>> \o rest

FREE_JOKER(score_card, pip) ==
    IF ~eligible(score_card) THEN <<>>
    ELSE LET bonus_applied == [score_card EXCEPT ![LS][YAHTZEE_INDEX] = @ + YAHTZEE_BONUS]
             upper_section_pip_index == pip - 1
             upper_section_was_full == ~(score_card[US][upper_section_pip_index] < 0)
             upper == IF upper_section_was_full THEN <<>>
                      ELSE <<[bonus_applied EXCEPT
                                ![US][upper_section_pip_index] = YAHTZEE_SIZE * pip]>>
             score_cards ==
                 upper \o FreeJokerLower(bonus_applied, pip, upper_section_was_full,
                                         UnusedFields(bonus_applied[LS], 0, LS_LENGTH))
         IN IF Len(score_cards) = 0
            THEN ZeroedCards(bonus_applied, US, UnusedFields(score_card[US], 0, US_LENGTH))
            ELSE score_cards

NONE(score_card, pip) == <<>>

KNIFFEL(score_card, pip) ==
    IF ~eligible(score_card) THEN <<>>
    ELSE LET bonus_applied == [score_card EXCEPT ![LS][YAHTZEE_INDEX] = @ + YAHTZEE_SCORE]
             upper_section_pip_index == pip - 1
         IN IF score_card[US][upper_section_pip_index] < 0
            THEN <<[bonus_applied EXCEPT ![US][upper_section_pip_index] = YAHTZEE_SIZE * pip]>>
            ELSE ZeroedCards(bonus_applied, US,
                             UnusedFields(bonus_applied[US], 0, US_LENGTH))
                 \o ZeroedCards(bonus_applied, LS,
                                UnusedFields(bonus_applied[LS], 0, LS_LENGTH))

\* The policies by name
BonusPolicies == {"FORCED_JOKER", "FREE_JOKER", "NONE", "KNIFFEL"}

ApplyPolicy(policy, score_card, pip) ==
    CASE policy = "FORCED_JOKER" -> FORCED_JOKER(score_card, pip)
      [] policy = "FREE_JOKER" -> FREE_JOKER(score_card, pip)
      [] policy = "NONE" -> NONE(score_card, pip)
      [] policy = "KNIFFEL" -> KNIFFEL(score_card, pip)

\* ------------------------------------------------------------------------
\* strategy.rs: State
\* ------------------------------------------------------------------------
\* State at the start of a game (State::new_from_rules, called in main.rs:56)
new_from_rules(rules) ==
    [score |-> Vec(<<0, 0>>),
     used |-> [s \in {US, LS} |-> [f \in DOMAIN rules.fields[s] |-> FALSE]],
     scored_yahtzee |-> FALSE,
     chips |-> rules.chips]

\* ------------------------------------------------------------------------
\* strategy.rs: probability_to_roll
\* ------------------------------------------------------------------------
\* Sort keys of the elements (die, pip) of a hand; dice compare as tuples
PipKey(el) == el[2]
DieKey(el) == el[1][1] * 256 + el[1][2]
KeyOf(key, el) == IF key = "pip" THEN PipKey(el) ELSE DieKey(el)

\* Stable sort of a hand by a key (insertion sort, which is what
\* sort_unstable_by_key and sort_by_key do on slices this short)
RECURSIVE InsertByKey(_, _, _)
InsertByKey(x, s, key) ==
    IF s = <<>> THEN <<x>>
    ELSE IF KeyOf(key, x) <= KeyOf(key, Head(s)) THEN <<x>> \o s
    ELSE <<Head(s)>> \o InsertByKey(x, Tail(s), key)

\* A hand left in the order it was built in
Unsorted(s, key) == s

RECURSIVE SortByKey(_, _)
SortByKey(s, key) ==
    IF s = <<>> THEN <<>>
    ELSE InsertByKey(Head(s), SortByKey(Tail(s), key), key)

\* Dice left to throw: one is taken off the first rules entry of the same
\* die for every die of `have`; panic when there is no such entry.  The
\* counts are u8: a count taken below zero is flagged as underflow and
\* goes on as the wrapped value, which is what a build without overflow
\* checks computes (a build with them panics at the subtraction).
RECURSIVE Leftover(_, _, _)
Leftover(have, i, leftover) ==
    IF i > Len(have) THEN [panic |-> FALSE, underflow |-> FALSE, dice |-> leftover]
    ELSE LET found == {k \in 1..Len(leftover) : leftover[k][1] = have[i][1]}
         IN IF found = {} THEN [panic |-> TRUE, underflow |-> FALSE, dice |-> <<>>]
            ELSE LET k == CHOOSE k \in found : \A m \in found : k <= m
                 IN [Leftover(have, i + 1,
                              [leftover EXCEPT
                                 ![k] = <<leftover[k][1], (leftover[k][2] - 1) % 256>>])
                       EXCEPT !.underflow = @ \/ leftover[k][2] = 0]

\* All hands after appending one more die (min, max) to every hand of `hands`
AppendDie(hands, die) ==
    {Append(h, <<die, pip>>) : h \in hands, pip \in die[1]..die[2]}

RECURSIVE AppendDice(_, _, _)
AppendDice(hands, die, frequency) ==
    IF frequency <= 0 THEN hands
    ELSE AppendDice(AppendDie(hands, die), die, frequency - 1)

RECURSIVE AllHands(_, _, _)
AllHands(hands, leftover, k) ==
    IF k > Len(leftover) THEN hands
    ELSE AllHands(AppendDice(hands, leftover[k][1], leftover[k][2]), leftover, k + 1)

RECURSIVE TotalHands(_, _)
TotalHands(leftover, k) ==
    IF k > Len(leftover) THEN 1
    ELSE Pow(leftover[k][1][2] - leftover[k][1][1] + 1, leftover[k][2]) * TotalHands(leftover, k + 1)

\* The table: sorted hand -> probability (count of outcomes / total).
\* `panic` is the panic of line 155; `underflow` says that a count was
\* taken below zero at line 151, the table is then left to the caller of
\* this operator, which has the outcomes of both kinds of build.
probability_to_roll(have, rules) ==
    LET leftover == Leftover(have, 1, rules.dice)
    IN IF leftover.panic THEN [panic |-> TRUE, underflow |-> leftover.underflow, table |-> <<>>]
       ELSE IF leftover.underflow THEN [panic |-> FALSE, underflow |-> TRUE, table |-> <<>>]
       ELSE LET hands == AllHands({have}, leftover.dice, 1)
                tot == TotalHands(leftover.dice, 1)
                sorted == {SortByKey(h, "pip") : h \in hands}
            IN [panic |-> FALSE, underflow |-> FALSE,
                table |-> [h \in sorted |->
                  RNorm(Cardinality({o \in hands : SortByKey(o, "pip") = h}), tot)]]

\* ------------------------------------------------------------------------
\* strategy.rs: choose_reroll and choose_field
\* ------------------------------------------------------------------------
\* Number of dice of a full hand (sum of the frequencies)
RECURSIVE SumFreq(_)
SumFreq(dice) == IF dice = <<>> THEN 0 ELSE Head(dice)[2] + SumFreq(Tail(dice))

\* Only the two keep-sets of keeping nothing and keeping everything
KeepNoneOrAll(hand, i, acc) == <<<<>>, hand>>

\* Candidate keep-sets in the order the loop builds them: for every element
\* the list so far is extended by its copies with the element pushed.
RECURSIVE PossibleHands(_, _, _)
PossibleHands(hand, i, acc) ==
    IF i > Len(hand) THEN acc
    ELSE PossibleHands(hand, i + 1,
                       acc \o [k \in 1..Len(acc) |-> Append(acc[k], hand[i])])

\* A reduction that keeps the earlier of two candidates of equal expectation
EarlierOnTie(a, b) == IF RGt(b.expectation, a.expectation) THEN b ELSE a

\* A reduction that keeps the candidate it met first
FirstOf(a, b) == a

\* The reduction operator of both reduce_with calls
BestOf(a, b) == IF RGt(a.expectation, b.expectation) THEN a ELSE b

\* The value of a `let`: the one element of a set {body : name \in {value}},
\* so that the bound value is computed once
Let(S) == CHOOSE v \in S : TRUE

\* Unused fields as <<section, field>>, upper section first, by index
RECURSIVE UnusedOf(_, _, _)
UnusedOf(used, section, field) ==
    IF field >= VLen(used[section]) THEN <<>>
    ELSE (IF used[section][field] THEN <<>> ELSE <<<<section, field>>>>)
         \o UnusedOf(used, section, field + 1)

AvailableFields(state) == UnusedOf(state.used, US, 0) \o UnusedOf(state.used, LS, 0)

\* A bonus that is granted whatever the hand is
AppliesWithoutYahtzee(state, hand, rules) ==
    state.scored_yahtzee /\ rules.yahtzee_bonus.short_name # "NONE"

\* Does the Yahtzee bonus apply to this hand (strategy.rs:322-324)
YahtzeeBonusApplies(state, hand, rules) ==
    /\ state.scored_yahtzee
    /\ rules.yahtzee_bonus.short_name # "NONE"
    /\ ScoreFunction(rules.fields[LS][YAHTZEE_INDEX], hand) > 0

\* <<score, bonus>> of writing `hand` into a field
FieldScore(state, hand, section, field, rules) ==
    IF YahtzeeBonusApplies(state, hand, rules)
    THEN YahtzeeBonusRules(rules.yahtzee_bonus.short_name, state.used, hand[1], section, field)
    ELSE <<ScoreFunction(rules.fields[section][field], hand), 0>>

AddScore(score, section, score_bonus) ==
    LET s1 == [score EXCEPT ![section] = @ + score_bonus[1]]
    IN [s1 EXCEPT ![LS] = @ + score_bonus[2]]

\* State after the last open field is written (end of game branch)
FinalState(state, hand, section, field, rules) ==
    Let({[state EXCEPT !.score =
             IF sc[US] >= rules.us_bonus.threshold
             THEN [sc EXCEPT ![US] = @ + rules.us_bonus.bonus] ELSE sc] :
         sc \in {AddScore(state.score, section, sb) :
                    sb \in {FieldScore(state, hand, section, field, rules)}}})

\* Does writing this score into this field mark the Yahtzee bonus available
MarksYahtzee(score, section, field) ==
    score > 0 /\ section = LS /\ field = YAHTZEE_INDEX

\* A mid-game update that awards the upper-section bonus at once
NewStateWithBonus(state, hand, section, field, rules) ==
    [FinalState(state, hand, section, field, rules) EXCEPT
        !.used = [state.used EXCEPT ![section][field] = TRUE]]

\* State after a field is written while several fields are open
NewState(state, hand, section, field, rules) ==
    Let({[score |-> AddScore(state.score, section, sb),
          used |-> [state.used EXCEPT ![section][field] = TRUE],
          scored_yahtzee |-> IF MarksYahtzee(sb[1], section, field)
                             THEN TRUE ELSE state.scored_yahtzee,
          chips |-> state.chips] :
         sb \in {FieldScore(state, hand, section, field, rules)}})

\* Rerolls a fresh turn is evaluated with (strategy.rs:371)
FreshTurnRerolls == THROWS - 1

\* May a chip be tried (strategy.rs:218)
MayTryChip(state, rerolls) == state.chips > 0 /\ rerolls = 0

\* A chip reroll that is taken on a tie as well
ChipIsNotWorse(use_chip, stop_now) == ~RGt(stop_now.expectation, use_chip.expectation)

\* Is the chip reroll preferred to stopping (strategy.rs:222)
ChipIsBetter(use_chip, stop_now) == RGt(use_chip.expectation, stop_now.expectation)

\* Did a call end in a panic instead of a recommendation
IsPanic(recomm) == "panic" \in DOMAIN recomm

\* What the leftover loop of probability_to_roll makes of the keep-sets
\* that are rolled on: "panic" if a die of one of them is missing from the
\* rules, "underflow" if none is but a count is taken below zero, else "none"
MismatchOf(rules, possible_hands) ==
    Let({IF \E l \in leftovers : l.panic THEN "panic"
         ELSE IF \E l \in leftovers : l.underflow THEN "underflow"
         ELSE "none" :
         leftovers \in {{Leftover(possible_hands[k], 1, rules.dice.dice) :
                           k \in {j \in 1..Len(possible_hands) :
                                     Len(possible_hands[j]) # SumFreq(rules.dice.dice)}}}})

RECURSIVE choose_reroll(_, _, _, _)
RECURSIVE choose_field(_, _, _)
RECURSIVE SumChances(_, _, _)
RECURSIVE BestHandChance(_, _, _, _, _)

\* Hands that can be rolled from the keep-sets that are not the full hand
RolledHands(rules, possible_hands) ==
    UNION {DOMAIN probability_to_roll(possible_hands[k], rules.dice).table :
           k \in {j \in 1..Len(possible_hands) :
                     Len(possible_hands[j]) # SumFreq(rules.dice.dice)}}

\* The cached results of choose_reroll with one reroll less, one entry
\* <<hand, expectation>> for every hand that can be rolled
RolledExpectations(state, rerolls, rules, possible_hands) ==
    {<<h, choose_reroll(state, h, rerolls - 1, rules).expectation>> :
       h \in RolledHands(rules, possible_hands)}

CachedExpectation(rolled, h) == (CHOOSE e \in rolled : e[1] = h)[2]

\* Sum over the table of probability * expectation of the hand rolled
SumChances(hands, table, rolled) ==
    IF hands = {} THEN RInt(0)
    ELSE LET h == CHOOSE x \in hands : TRUE
         IN RAdd(RMul(table[h], CachedExpectation(rolled, h)),
                 SumChances(hands \ {h}, table, rolled))

\* The result of choose_field on the hand as the keep-sets of full length
\* get it: a set of this one result, empty if no keep-set has full length
\* and choose_field is not called
StopNow(state, hand, rules, possible_hands) ==
    {choose_field(state, hand, rules) :
       called \in {\E k \in 1..Len(possible_hands) :
                      Len(possible_hands[k]) = SumFreq(rules.dice.dice)} \ {FALSE}}

\* HandChance of one candidate keep-set (strategy.rs:254-277)
HandChance(stop_now, rolled, rules, partial_hand) ==
    [hand |-> partial_hand,
     expectation |->
         IF Len(partial_hand) = SumFreq(rules.dice.dice)
         THEN (CHOOSE recomm \in stop_now : TRUE).expectation
         ELSE Let({SumChances(DOMAIN t, t, rolled) :
                   t \in {probability_to_roll(partial_hand, rules.dice).table}})]

\* reduce_with over the first k candidates in sequence order (BestOf is
\* associative, so every grouping of adjacent candidates gives this result)
BestHandChance(stop_now, rolled, rules, possible_hands, k) ==
    Let({IF k = 1 THEN c
         ELSE Let({BestOf(b, c) :
                   b \in {BestHandChance(stop_now, rolled, rules, possible_hands, k - 1)}}) :
         c \in {HandChance(stop_now, rolled, rules, possible_hands[k])}})

choose_reroll(state, hand, rerolls, rules) ==
    IF rerolls = 0 \/ rerolls = -2
    THEN Let({IF MayTryChip(state, rerolls)
              THEN Let({IF IsPanic(use_chip) THEN use_chip
                        ELSE IF ChipIsBetter(use_chip, stop_now)
                        THEN use_chip
                        ELSE [hand |-> hand, state |-> stop_now.state,
                              expectation |-> stop_now.expectation] :
                        use_chip \in {choose_reroll([state EXCEPT !.chips = @ - 1],
                                                    hand, rerolls - 1, rules)}})
              ELSE [hand |-> hand, state |-> stop_now.state,
                    expectation |-> stop_now.expectation] :
              stop_now \in {choose_field(state, hand, rules)}})
    ELSE Let({IF MismatchOf(rules, possible_hands) # "none"
              THEN [panic |-> MismatchOf(rules, possible_hands)]
              ELSE Let({IF rolled = {}
                        THEN [hand |-> hand, state |-> state,
                              expectation |-> choose_field(state, hand, rules).expectation]
                        ELSE Let({[hand |-> best.hand, state |-> state,
                                   expectation |-> best.expectation] :
                                  best \in {Let({BestHandChance(stop_now, rolled, rules,
                                                                possible_hands,
                                                                Len(possible_hands)) :
                                                 stop_now \in {StopNow(state, hand, rules,
                                                                       possible_hands)}})}}) :
                        rolled \in {RolledExpectations(state, rerolls, rules, possible_hands)}}) :
              possible_hands \in {PossibleHands(hand, 1, << <<>> >>)}})

\* FieldRecomm of one unused field while several are open (strategy.rs:353-378)
FieldOption(state, hand, rules, section, field) ==
    Let({[section |-> section, field |-> field, state |-> new_state,
          expectation |->
              choose_reroll(new_state, <<>>, FreshTurnRerolls, rules).expectation] :
         new_state \in {NewState(state, hand, section, field, rules)}})

RECURSIVE BestFieldOption(_, _, _, _, _)
BestFieldOption(state, hand, rules, available_fields, k) ==
    Let({IF k = 1 THEN c
         ELSE Let({BestOf(b, c) :
                   b \in {BestFieldOption(state, hand, rules, available_fields, k - 1)}}) :
         c \in {FieldOption(state, hand, rules,
                            available_fields[k][1], available_fields[k][2])}})

choose_field(state, have, rules) ==
    Let({IF Len(available_fields) = 1
         THEN Let({[section |-> available_fields[1][1], field |-> available_fields[1][2],
                    state |-> final_state,
                    expectation |-> RInt(final_state.score[US] + final_state.score[LS])] :
                   final_state \in {FinalState(state, hand, available_fields[1][1],
                                               available_fields[1][2], rules)}})
         ELSE IF Len(available_fields) = 0
         THEN [panic |-> "panic"]
         ELSE BestFieldOption(state, hand, rules, available_fields, Len(available_fields)) :
         hand \in {Pips(have)}, available_fields \in {AvailableFields(state)}})

\* ------------------------------------------------------------------------
\* global.rs: PartialHand::is_full_hand
\* ------------------------------------------------------------------------
CountDie(hand, die) == Cardinality({i \in 1..Len(hand) : hand[i][1] = die})

is_full_hand(hand, dice) ==
    \A k \in 1..Len(dice) : CountDie(hand, dice[k][1]) % 256 = dice[k][2]

\* ------------------------------------------------------------------------
\* view_model.rs: ViewModel::recommend
\* ------------------------------------------------------------------------
\* Rules the games of this model are played with: the one-coin rules of
\* test_choose_reroll (one field, two chips); one-coin rules with one upper
\* field, one lower field and an upper-section bonus; two-coin rules with
\* one field and one chip; one-coin rules with two fields that score zero
\* whatever the coin shows and the field of test_choose_reroll.
toy_rules_t ==
    [short_name |-> "t",
     dice |-> [short_name |-> "t", dice |-> <<<<D2, 2>>>>],
     chips |-> 0,
     fields |-> Vec(<<Vec(<<"Count and Add Only Twos">>), Vec(<<"Chance">>)>>),
     us_bonus |-> [threshold |-> 3, bonus |-> 5],
     yahtzee_bonus |-> [short_name |-> "NONE"]]

toy_rules_u ==
    [short_name |-> "u",
     dice |-> [short_name |-> "u", dice |-> <<<<D2, 2>>>>],
     chips |-> 1,
     fields |-> Vec(<<Vec(<<>>), Vec(<<"Chance">>)>>),
     us_bonus |-> [threshold |-> 1, bonus |-> 1],
     yahtzee_bonus |-> [short_name |-> "NONE"]]

toy_rules_k ==
    [short_name |-> "k",
     dice |-> [short_name |-> "k", dice |-> <<<<D2, 1>>>>],
     chips |-> 0,
     fields |-> Vec(<<Vec(<<"Count and Add Only Threes">>), Vec(<<"Dummy", "Throw 1">>)>>),
     us_bonus |-> [threshold |-> 3, bonus |-> 5],
     yahtzee_bonus |-> [short_name |-> "NONE"]]

\* One-coin rules with one chip and two lower fields, for the calls of the
\* strategy that are looked at one by one
toy_rules_c ==
    [short_name |-> "c",
     dice |-> [short_name |-> "c", dice |-> <<<<D2, 1>>>>],
     chips |-> 1,
     fields |-> Vec(<<Vec(<<>>), Vec(<<"Dummy", "Throw 1">>)>>),
     us_bonus |-> [threshold |-> 2, bonus |-> 0],
     yahtzee_bonus |-> [short_name |-> "NONE"]]

GameRules == {"y", "t", "u", "k"}

\* Rules the field updates are run on: the toy rules t, the rules of
\* test_choose_field, regular Yahtzee and Yahtzee Extreme (main.rs:64-73)
FieldRules == {"t", "z", "n", "f"}

RulesNamed(name) ==
    CASE name = "y" -> simple_rules_y
      [] name = "t" -> toy_rules_t
      [] name = "u" -> toy_rules_u
      [] name = "k" -> toy_rules_k
      [] name = "c" -> toy_rules_c
      [] name = "z" -> simple_rules_z
      [] name = "n" -> build_rules(FALSE, "NONE")
      [] name = "f" -> build_rules(TRUE, "NONE")

\* Canonical order: by pip (unstable sort), then stably by die
SortHand(hand) == SortByKey(SortByKey(hand, "pip"), "die")

\* rerolls after a Field recommendation (view_model.rs:49)
RerollsAfterField == THROWS

\* rerolls that stay at zero once they reached it
RerollsStuckAtZero(rerolls) == IF rerolls = 0 THEN 0 ELSE rerolls - 1

\* rerolls after a Reroll recommendation (view_model.rs:56)
RerollsAfterReroll(rerolls) == rerolls - 1

\* recommend(self, hand): the result and the fields of self afterwards
recommend(self, observed) ==
    Let({IF ~is_full_hand(hand, self.rules.dice.dice)
         THEN [result |-> [kind |-> "Err"], state |-> self.state, rerolls |-> self.rerolls]
         ELSE Let({IF IsPanic(reroll_recomm)
                   THEN [result |-> [kind |-> IF reroll_recomm.panic = "panic"
                                              THEN "Panic" ELSE "Underflow"],
                         state |-> self.state, rerolls |-> self.rerolls]
                   ELSE IF is_full_hand(reroll_recomm.hand, self.rules.dice.dice)
                   THEN Let({[result |-> [kind |-> "Field",
                                          section |-> field_recomm.section,
                                          field |-> field_recomm.field],
                              state |-> field_recomm.state,
                              rerolls |-> RerollsAfterField] :
                             field_recomm \in {choose_field(self.state, hand, self.rules)}})
                   ELSE [result |-> [kind |-> "Reroll", hand |-> reroll_recomm.hand],
                         state |-> reroll_recomm.state,
                         rerolls |-> RerollsAfterReroll(self.rerolls)] :
                   reroll_recomm \in {choose_reroll(self.state, hand,
                                                    self.rerolls, self.rules)}}) :
         hand \in {SortHand(observed)}})

\* ------------------------------------------------------------------------
\* The game: a ViewModel built as in main.rs, driven by observed hands
\* ------------------------------------------------------------------------
\* Bound on the Field recommendations of one game
MaxFieldRecs == 4

\* Bounds on the field updates of one run of FieldSpec: on the small rules
\* (t, z) and on the rules of the real games (n, f)
MaxUpdates == 2
MaxLargeUpdates == 1

VARIABLES
    rules,      \* short name of the rules
    state,      \* ViewModel.state / the State the field updates are made on
    rerolls,    \* ViewModel.rerolls
    last,       \* the last call: state and rerolls before it, sorted hand, result
    turn,       \* this turn: rerolls and chips at its start, Reroll results so far
    card,       \* the fields written so far, with the score and bonus written
    score_card, \* score per field, below zero while the field is unused
    offered,    \* the call of a Yahtzee-bonus policy on score_card and its result
    memo,       \* the stores of the memoized functions, key -> value; the games
                \* call the functions themselves and do not look at the stores
    workers     \* the calls of memoized functions the workers of the pool are in

vars == <<rules, state, rerolls, last, turn, card, score_card, offered, memo, workers>>

\* The stores and the workers where they are not looked at
Unobserved == [kind |-> "None"]

\* Hands of the dice of the rules, in any order
RECURSIVE FullHands(_, _)
FullHands(dice, k) ==
    IF k > Len(dice) THEN {<<>>}
    ELSE AppendDice(FullHands(dice, k + 1), dice[k][1], dice[k][2])

ObservedHands(r) == FullHands(r.dice.dice, 1)

\* The score card of a state reached with scores of zero
CardOf(s) == [sec \in DOMAIN s.used |->
                [f \in DOMAIN s.used[sec] |-> IF s.used[sec][f] THEN 0 ELSE -1]]

Init ==
    /\ rules \in GameRules
    /\ state = new_from_rules(RulesNamed(rules))
    /\ rerolls = REROLLS
    /\ last = [kind |-> "None"]
    /\ turn = [rerolls |-> REROLLS, chips |-> RulesNamed(rules).chips, rerolled |-> 0]
    /\ card = <<>>
    /\ score_card = CardOf(state)
    /\ offered = [kind |-> "None"]
    /\ memo = Unobserved
    /\ workers = Unobserved

\* How a call can end: as the result says, or, when a count was taken
\* below zero, in the panic of a build with overflow checks or the wrapped
\* count of a build without them
EndsOf(kind) == IF kind = "Underflow" THEN {"Panic", "Wrapped"} ELSE {kind}

\* Calls that neither returned nor will
Ended == {"Panic", "Wrapped"}

Recommend(observed) ==
    /\ Len(card) < MaxFieldRecs
    /\ AvailableFields(state) # <<>>
    /\ last.kind \notin Ended
    /\ \E r \in {recommend([rules |-> RulesNamed(rules), state |-> state,
                              rerolls |-> rerolls], observed)} :
          /\ state' = r.state
          /\ rerolls' = r.rerolls
          /\ \E kind \in EndsOf(r.result.kind) :
                last' = [kind |-> kind, result |-> r.result, state |-> state,
                         rerolls |-> rerolls, hand |-> SortHand(observed)]
          /\ turn' = IF r.result.kind = "Field"
                     THEN [rerolls |-> r.rerolls, chips |-> r.state.chips, rerolled |-> 0]
                     ELSE IF r.result.kind = "Reroll"
                     THEN [turn EXCEPT !.rerolled = @ + 1]
                     ELSE turn
          /\ \E sb \in {IF r.result.kind = "Field"
                        THEN FieldScore(state, Pips(SortHand(observed)), r.result.section,
                                        r.result.field, RulesNamed(rules))
                        ELSE <<0, 0>>} :
                /\ card' = IF r.result.kind = "Field"
                           THEN Append(card, [section |-> r.result.section,
                                              field |-> r.result.field,
                                              score |-> sb[1], bonus |-> sb[2]])
                           ELSE card
                /\ score_card' = IF r.result.kind = "Field"
                                 THEN [score_card EXCEPT
                                         ![r.result.section][r.result.field] = sb[1]]
                                 ELSE score_card
    /\ UNCHANGED <<rules, offered, memo, workers>>

Next == \E observed \in ObservedHands(RulesNamed(rules)) : Recommend(observed)

Spec == Init /\ [][Next]_vars

\* The game with observed hands that do not match the dice of the rules
\* as well: a die too few, a die of the rules too many, a die of the rules
\* replaced by a D10, a D10 more (what the REPL builds from a second word)
Shortened(hands) == {SubSeq(h, 2, Len(h)) : h \in hands}

Lengthened(hands, die, pip) == {Append(h, <<die, pip>>) : h \in hands}

\* The hand of the rules with every die on its lowest pip
LowestHand(r) == CHOOSE h \in ObservedHands(r) : \A i \in 1..Len(h) : h[i][2] = h[i][1][1]

MismatchedHands(r) ==
    Let({Shortened(hands)
         \cup Lengthened(hands, r.dice.dice[1][1], r.dice.dice[1][1][2])
         \cup Lengthened(Shortened(hands), D10, 7)
         \cup Lengthened(hands, D10, 7) :
         hands \in {{LowestHand(r)}}})

HandNext ==
    \/ Next
    \/ \E observed \in MismatchedHands(RulesNamed(rules)) : Recommend(observed)

HandSpec == Init /\ [][HandNext]_vars

\* ------------------------------------------------------------------------
\* The field updates: every state update choose_field makes for an unused
\* field (strategy.rs:325-368), on hands of the rules, and the Yahtzee-bonus
\* policies applied to the score card the updates produce
\* ------------------------------------------------------------------------
OfDie(die, pips) == [i \in 1..Len(pips) |-> <<die, pips[i]>>]

\* Sorted full hands the updates are made with
FieldHands(name) ==
    CASE name \in {"t", "z"} ->
            {OfDie(D2, <<1, 1>>), OfDie(D2, <<1, 2>>), OfDie(D2, <<2, 2>>)}
      [] name = "n" ->
            {OfDie(D6, <<1, 1, 1, 1, 1>>), OfDie(D6, <<2, 2, 3, 3, 3>>),
             OfDie(D6, <<1, 2, 3, 4, 6>>)}
      [] name = "f" ->
            {OfDie(D10, <<1>>) \o OfDie(D6, <<2, 2, 3, 3, 3>>),
             OfDie(D10, <<4>>) \o OfDie(D6, <<4, 4, 4, 4, 4>>)}

\* The used masks of the states of test_choose_field
TestUsedMasks ==
    {Vec(<<Vec(<<FALSE, TRUE>>), Vec(<<TRUE, TRUE, TRUE, TRUE, FALSE, TRUE>>)>>),
     Vec(<<Vec(<<TRUE, TRUE>>), Vec(<<TRUE, TRUE, TRUE, TRUE, FALSE, FALSE>>)>>),
     Vec(<<Vec(<<FALSE, TRUE>>), Vec(<<TRUE, TRUE, TRUE, TRUE, TRUE, TRUE>>)>>)}

\* States the updates start from: the start of a game and, for the rules
\* of test_choose_field, the late-game states of that test, as they are
\* reached with hands that score zero
StartStates(name) ==
    {new_from_rules(RulesNamed(name))}
    \cup (IF name = "z"
          THEN {[new_from_rules(simple_rules_z) EXCEPT !.used = m] : m \in TestUsedMasks}
          ELSE {})

\* The state update of choose_field for one unused field
FieldUpdate(s, hand, section, field, r) ==
    IF Len(AvailableFields(s)) = 1
    THEN FinalState(s, hand, section, field, r)
    ELSE NewState(s, hand, section, field, r)

\* Pips a Yahtzee-bonus policy is called with
OfferPips == {1, 6}

FieldInit ==
    /\ rules \in FieldRules
    /\ state \in StartStates(rules)
    /\ rerolls = REROLLS
    /\ last = [kind |-> "None"]
    /\ turn = [rerolls |-> REROLLS, chips |-> RulesNamed(rules).chips, rerolled |-> 0]
    /\ card = <<>>
    /\ score_card = CardOf(state)
    /\ offered = [kind |-> "None"]
    /\ memo = Unobserved
    /\ workers = Unobserved

UpdatesCap(name) == IF name \in {"n", "f"} THEN MaxLargeUpdates ELSE MaxUpdates

WriteField(have, section, field) ==
    /\ Len(card) < UpdatesCap(rules)
    /\ \E k \in 1..Len(AvailableFields(state)) : AvailableFields(state)[k] = <<section, field>>
    /\ \E sb \in {FieldScore(state, Pips(have), section, field, RulesNamed(rules))} :
          /\ card' = Append(card, [section |-> section, field |-> field,
                                   score |-> sb[1], bonus |-> sb[2]])
          /\ score_card' = [score_card EXCEPT ![section][field] = sb[1]]
    /\ state' = FieldUpdate(state, Pips(have), section, field, RulesNamed(rules))
    /\ last' = [kind |-> "Field",
                result |-> [kind |-> "Field", section |-> section, field |-> field],
                state |-> state, rerolls |-> rerolls, hand |-> have]
    /\ offered' = [kind |-> "None"]
    /\ UNCHANGED <<rules, rerolls, turn, memo, workers>>

OfferBonus(policy, pip) ==
    /\ VLen(score_card[US]) = US_LENGTH
    /\ VLen(score_card[LS]) = LS_LENGTH
    /\ offered' = [kind |-> "Offer", policy |-> policy, pip |-> pip,
                   score_card |-> score_card,
                   score_cards |-> ApplyPolicy(policy, score_card, pip)]
    /\ UNCHANGED <<rules, state, rerolls, last, turn, card, score_card, memo, workers>>

FieldNext ==
    \/ \E have \in FieldHands(rules), section \in {US, LS}, field \in 0..(US_LENGTH + LS_LENGTH + 8) :
          WriteField(have, section, field)
    \/ \E policy \in BonusPolicies, pip \in OfferPips : OfferBonus(policy, pip)

FieldSpec == FieldInit /\ [][FieldNext]_vars

\* ------------------------------------------------------------------------
\* The Yahtzee-bonus policies on score cards of regular Yahtzee, early and
\* late in a game (the cards of the tests of yahtzee_bonus_rules.rs and
\* their likes)
\* ------------------------------------------------------------------------
\* What a used field holds on the cards below (the Yahtzee field apart)
UsedScores == Vec(<<Vec(<<3, 6, 9, 12, 15, 18>>), Vec(<<20, 25, 25, 30, 40, 50, 22>>)>>)

\* Sets of used fields: Aces, Sixes, and the four other upper fields as one;
\* Full House, Small Straight, Large Straight, Chance, and Three and Four
\* of a Kind as one
UsedUpperSets == {a \cup b : a \in SUBSET {0, 5}, b \in {{}, {1, 2, 3, 4}}}
UsedLowerSets == {a \cup b : a \in SUBSET {2, 3, 4, 6}, b \in {{}, {0, 1}}}

\* What the Yahtzee field holds: unused, zeroed, scored, scored with a bonus
YahtzeeFieldScores == {-1, 0, YAHTZEE_SCORE, YAHTZEE_SCORE + YAHTZEE_BONUS}

BonusCard(upper, lower, yahtzee) ==
    Vec(<<[f \in 0..(US_LENGTH - 1) |-> IF f \in upper THEN UsedScores[US][f] ELSE -1],
          [f \in 0..(LS_LENGTH - 1) |->
              IF f = YAHTZEE_INDEX THEN yahtzee
              ELSE IF f \in lower THEN UsedScores[LS][f] ELSE -1]>>)

BonusCards ==
    {BonusCard(upper, lower, yahtzee) :
       upper \in UsedUpperSets, lower \in UsedLowerSets, yahtzee \in YahtzeeFieldScores}

\* The State of a game whose score card is c
StateOfCard(c) ==
    [score |-> [sec \in {US, LS} |->
                  SumSeq([i \in 1..VLen(c[sec]) |->
                            IF c[sec][i - 1] < 0 THEN 0 ELSE c[sec][i - 1]])],
     used |-> [sec \in {US, LS} |-> [f \in DOMAIN c[sec] |-> c[sec][f] >= 0]],
     scored_yahtzee |-> c[LS][YAHTZEE_INDEX] > 0,
     chips |-> 0]

BonusInit ==
    /\ rules = "n"
    /\ score_card \in BonusCards
    /\ state = StateOfCard(score_card)
    /\ rerolls = REROLLS
    /\ last = [kind |-> "None"]
    /\ turn = [rerolls |-> REROLLS, chips |-> 0, rerolled |-> 0]
    /\ card = <<>>
    /\ offered = [kind |-> "None"]
    /\ memo = Unobserved
    /\ workers = Unobserved

BonusNext == \E policy \in BonusPolicies, pip \in OfferPips : OfferBonus(policy, pip)

BonusSpec == BonusInit /\ [][BonusNext]_vars

\* ------------------------------------------------------------------------
\* probability_to_roll on partial hands that fit the dice rules and on
\* partial hands that do not
\* ------------------------------------------------------------------------
\* Longest partial hand probability_to_roll is called with
MaxHave == 3

\* Dice rules by short name: the four coins and the empty rules of the
\* tests of probability_to_roll, one coin, two coins and a d6, two d6, and
\* a d6 and a d10 in the order of the Extreme rules (rules.rs)
DiceRulesNamed(name) ==
    CASE name = "w" -> [short_name |-> "w", dice |-> <<<<D2, 4>>>>]
      [] name = "x" -> [short_name |-> "x", dice |-> <<>>]
      [] name = "y" -> [short_name |-> "y", dice |-> <<<<D2, 1>>>>]
      [] name = "m" -> [short_name |-> "m", dice |-> <<<<D2, 2>>, <<D6, 1>>>>]
      [] name = "s" -> [short_name |-> "s", dice |-> <<<<D6, 2>>>>]
      [] name = "e" -> [short_name |-> "e", dice |-> <<<<D6, 1>>, <<D10, 1>>>>]

RollRules == {"w", "x", "y", "m", "s", "e"}

\* Dice a partial hand is made of
HaveDice == {<<D2, 1>>, <<D2, 2>>, <<D6, 3>>, <<D6, 6>>, <<D10, 4>>}

Haves == UNION {[1..n -> HaveDice] : n \in 0..MaxHave}

\* What a call of probability_to_roll can end in: the panic of a mismatch,
\* the table, or, when a count was taken below zero, what the build makes
\* of it: a panic at the subtraction with overflow checks, the loop left
\* with the wrapped count without them
RollOutcomes(have, dice_rules) ==
    UNION {IF r.panic THEN {[kind |-> "Panic"]}
           ELSE IF r.underflow
           THEN {[kind |-> "Panic"],
                 [kind |-> "Wrapped", leftover |-> Leftover(have, 1, dice_rules.dice).dice]}
           ELSE {[kind |-> "Table", table |-> r.table]} :
           r \in {probability_to_roll(have, dice_rules)}}

RollInit ==
    /\ rules \in RollRules
    /\ last \in {[kind |-> "Call", have |-> have] : have \in Haves}
    /\ state = [kind |-> "None"]
    /\ rerolls = REROLLS
    /\ turn = [rerolls |-> REROLLS, chips |-> 0, rerolled |-> 0]
    /\ card = <<>>
    /\ score_card = <<>>
    /\ offered = [kind |-> "None"]
    /\ memo = Unobserved
    /\ workers = Unobserved

Roll ==
    /\ last.kind = "Call"
    /\ \E outcome \in RollOutcomes(last.have, DiceRulesNamed(rules)) :
          last' = [kind |-> "Roll", have |-> last.have, outcome |-> outcome]
    /\ UNCHANGED <<rules, state, rerolls, turn, card, score_card, offered, memo, workers>>

\* choose_field on a hand as ViewModel::recommend hands it on: the
\* observed hand, sorted, when it passed the check of recommend; the
\* scorers get its pips
ScoreObserved ==
    /\ last.kind = "Call"
    /\ is_full_hand(SortHand(last.have), DiceRulesNamed(rules).dice)
    /\ last' = [kind |-> "Scored", from |-> "recommend", have |-> SortHand(last.have),
                pips |-> Pips(SortHand(last.have))]
    /\ UNCHANGED <<rules, state, rerolls, turn, card, score_card, offered, memo, workers>>

\* choose_field on a hand of the table of probability_to_roll, as
\* choose_reroll hands it on
ScoreRolled ==
    /\ last.kind = "Roll"
    /\ last.outcome.kind = "Table"
    /\ \E hand \in DOMAIN last.outcome.table :
          last' = [kind |-> "Scored", from |-> "probability_to_roll", have |-> hand,
                   pips |-> Pips(hand)]
    /\ UNCHANGED <<rules, state, rerolls, turn, card, score_card, offered, memo, workers>>

RollNext == Roll \/ ScoreObserved \/ ScoreRolled

RollSpec == RollInit /\ [][RollNext]_vars

\* ------------------------------------------------------------------------
\* The hand scorers generic_identical and generic_straight on sorted hands
\* ------------------------------------------------------------------------
\* Highest pip, longest hand, largest required group size or run length,
\* longest list of required group sizes
MaxPip == 4
MaxHandLen == 5
MaxGroup == 5
MaxRequired == 2

\* Hands of pips, sorted ascending
SortedHands ==
    UNION {{h \in [1..n -> 1..MaxPip] : \A i \in 1..(n - 1) : h[i] <= h[i + 1]} :
           n \in 0..MaxHandLen}

\* Ascending lists of required group sizes
RequiredLists ==
    UNION {{req \in [1..n -> 1..MaxGroup] : \A i \in 1..(n - 1) : req[i] <= req[i + 1]} :
           n \in 0..MaxRequired}

\* The score functions handed to generic_identical: total, and |_| 25
ScoreOf(scorer, hand) == IF scorer = "total" THEN total(hand) ELSE FULL_HOUSE_SCORE

ScorerCalls ==
    {[kind |-> "Identical", required |-> required, scorer |-> scorer, hand |-> hand] :
       required \in RequiredLists, scorer \in {"total", "fixed"}, hand \in SortedHands}
    \cup {[kind |-> "Straight", length |-> length, hand |-> hand] :
            length \in 1..MaxGroup, hand \in SortedHands}

ScorerInit ==
    /\ last \in ScorerCalls
    /\ rules = "n"
    /\ state = Unobserved
    /\ rerolls = REROLLS
    /\ turn = [rerolls |-> REROLLS, chips |-> 0, rerolled |-> 0]
    /\ card = <<>>
    /\ score_card = <<>>
    /\ offered = [kind |-> "None"]
    /\ memo = Unobserved
    /\ workers = Unobserved

ScoreIdentical ==
    /\ last.kind = "Identical"
    /\ last' = [kind |-> "IdenticalScored", required |-> last.required,
                scorer |-> last.scorer, hand |-> last.hand,
                score |-> generic_identical(last.required,
                                            ScoreOf(last.scorer, last.hand), last.hand)]
    /\ UNCHANGED <<rules, state, rerolls, turn, card, score_card, offered, memo, workers>>

ScoreStraight ==
    /\ last.kind = "Straight"
    /\ last' = [kind |-> "StraightScored", length |-> last.length, hand |-> last.hand,
                score |-> generic_straight(last.length, SMALL_STRAIGHT_SCORE, last.hand)]
    /\ UNCHANGED <<rules, state, rerolls, turn, card, score_card, offered, memo, workers>>

ScorerNext == ScoreIdentical \/ ScoreStraight

ScorerSpec == ScorerInit /\ [][ScorerNext]_vars

\* ------------------------------------------------------------------------
\* The calls of the strategy: a call of recommend, choose_reroll or
\* choose_field, the calls it makes in turn down any chain of them, and
\* what a call returns
\* ------------------------------------------------------------------------
CallRules == {"y", "t", "u", "k", "c"}

\* The used masks of the fields of the rules
UsedMasks(r) ==
    {u \in [{US, LS} -> UNION {[DOMAIN r.fields[sec] -> BOOLEAN] : sec \in {US, LS}}] :
       \A sec \in {US, LS} : DOMAIN u[sec] = DOMAIN r.fields[sec]}

\* States of a game under the rules in which a field is left: any fields
\* used (with scores of zero), any number of chips left
CallStates(r) ==
    {s \in {[new_from_rules(r) EXCEPT !.used = u, !.chips = c] :
              u \in UsedMasks(r), c \in 0..r.chips} :
       AvailableFields(s) # <<>>}

\* A call: the function, its state, hand and rerolls (0 for choose_field,
\* which has none)
Call(fn, s, hand, n) == [kind |-> "Call", fn |-> fn, s |-> s, hand |-> hand, n |-> n]

\* A callee that is given the rerolls of its caller
RerollsKept(n) == n

\* rerolls of the calls choose_reroll makes of itself (strategy.rs:220, 266)
RerollsOfCallee(n) == n - 1

\* The calls choose_reroll makes
CalleesOfReroll(s, hand, n, r) ==
    IF n = 0 \/ n = -2
    THEN {Call("choose_field", s, hand, 0)}
         \cup {Call("choose_reroll", [s EXCEPT !.chips = @ - 1], hand, RerollsOfCallee(n)) :
                 tried \in {MayTryChip(s, n)} \ {FALSE}}
    ELSE Let({IF MismatchOf(r, possible_hands) # "none" THEN {}
              ELSE {Call("choose_field", s, hand, 0) :
                      called \in {\E k \in 1..Len(possible_hands) :
                                     Len(possible_hands[k]) = SumFreq(r.dice.dice)} \ {FALSE}}
                   \cup {Call("choose_reroll", s, h, RerollsOfCallee(n)) :
                           h \in RolledHands(r, possible_hands)} :
              possible_hands \in {PossibleHands(hand, 1, << <<>> >>)}})

\* The calls choose_field makes: none for the last field, else one fresh
\* turn for every unused field
CalleesOfField(s, have, r) ==
    Let({IF Len(available_fields) <= 1 THEN {}
         ELSE {Call("choose_reroll",
                    NewState(s, Pips(have), available_fields[k][1],
                             available_fields[k][2], r),
                    <<>>, FreshTurnRerolls) : k \in 1..Len(available_fields)} :
         available_fields \in {AvailableFields(s)}})

\* The calls recommend makes
CalleesOfRecommend(s, observed, n, r) ==
    Let({IF ~is_full_hand(hand, r.dice.dice) THEN {}
         ELSE {Call("choose_reroll", s, hand, n)}
              \cup {Call("choose_field", s, hand, 0) :
                      reroll_recomm \in {recomm \in {choose_reroll(s, hand, n, r)} :
                                           /\ ~IsPanic(recomm)
                                           /\ is_full_hand(recomm.hand, r.dice.dice)}} :
         hand \in {SortHand(observed)}})

Callees(call, r) ==
    CASE call.fn = "choose_reroll" -> CalleesOfReroll(call.s, call.hand, call.n, r)
      [] call.fn = "choose_field" -> CalleesOfField(call.s, call.hand, r)
      [] call.fn = "recommend" -> CalleesOfRecommend(call.s, call.hand, call.n, r)

\* What a call returns; for recommend the result and the ViewModel after it
ValueOf(call, r) ==
    CASE call.fn = "choose_reroll" -> choose_reroll(call.s, call.hand, call.n, r)
      [] call.fn = "choose_field" -> choose_field(call.s, call.hand, r)
      [] call.fn = "recommend" ->
           recommend([rules |-> r, state |-> call.s, rerolls |-> call.n], call.hand)

\* The calls the program makes from outside the strategy: recommend with
\* an observed hand and the rerolls of the ViewModel (below zero only after
\* a chip was spent), warm_up_caches with the empty hand and REROLLS
\* (caching.rs:33-34), the tests with a sorted full hand
FirstCalls(r) ==
    {c \in {Call(fn, s, hand, n) :
              fn \in {"recommend", "choose_reroll", "choose_field"},
              s \in CallStates(r),
              hand \in ObservedHands(r) \cup {<<>>},
              n \in -2..THROWS} :
       /\ c.n < 0 => c.s.chips < r.chips
       /\ c.fn = "choose_field" => c.n = 0
       /\ c.fn # "recommend" => c.hand = SortHand(c.hand)
       /\ c.hand = <<>> => c.fn = "choose_reroll" /\ c.n = REROLLS}

CallInit ==
    /\ rules \in CallRules
    /\ last \in FirstCalls(RulesNamed(rules))
    /\ turn = [fresh |-> FALSE, throws |-> 0]
    /\ state = Unobserved
    /\ rerolls = 0
    /\ card = <<>>
    /\ score_card = <<>>
    /\ offered = [kind |-> "None"]
    /\ memo = Unobserved
    /\ workers = Unobserved

\* The call goes on into one of the calls it makes.  turn tells whether
\* the chain is in a fresh turn, one that choose_field began, and how often
\* the dice were thrown in the turn since the chain entered it
Descend ==
    /\ last.kind = "Call"
    /\ \E callees \in {Callees(last, RulesNamed(rules))} :
          \E callee \in callees :
             /\ last' = callee
             /\ turn' = IF last.fn = "choose_field"
                        THEN [fresh |-> TRUE, throws |-> 0]
                        ELSE IF /\ last.fn = "choose_reroll"
                                /\ callee.fn = "choose_reroll"
                                /\ callee.s = last.s
                        THEN [turn EXCEPT !.throws = @ + 1]
                        ELSE turn
    /\ UNCHANGED <<rules, state, rerolls, card, score_card, offered, memo, workers>>

\* The call returns
Return ==
    /\ last.kind = "Call"
    /\ \E value \in {ValueOf(last, RulesNamed(rules))} :
          last' = [kind |-> "Return", call |-> last, value |-> value]
    /\ UNCHANGED <<rules, state, rerolls, turn, card, score_card, offered, memo, workers>>

CallNext == Descend \/ Return

CallSpec == CallInit /\ [][CallNext]_vars

\* ------------------------------------------------------------------------
\* strategy.rs: the keys of the memoized functions
\* ------------------------------------------------------------------------
\* Two strings put together with nothing between them
Glued(a, b) == a \o b

\* format!("{},{}", a, b)
Joined(a, b) == a \o "," \o b

\* reduce(|a, b| format!("{},{}", a, b)) over the first k strings, k >= 1
RECURSIVE JoinAll(_, _)
JoinAll(strs, k) == IF k = 1 THEN strs[1] ELSE Joined(JoinAll(strs, k - 1), strs[k])

\* PartialHand::compact_fmt: "min,max,pip" of every element, joined by ","
PartialHand_compact_fmt(hand) ==
    IF hand = <<>> THEN ""
    ELSE JoinAll([i \in 1..Len(hand) |->
                    Joined(ToString(hand[i][1][1]),
                           Joined(ToString(hand[i][1][2]), ToString(hand[i][2])))],
                 Len(hand))

\* A section of the used mask as digits 0 and 1, nothing between them
RECURSIVE Digits(_, _)
Digits(section, field) ==
    IF field >= VLen(section) THEN ""
    ELSE (IF section[field] THEN "1" ELSE "0") \o Digits(section, field + 1)

\* State::compact_fmt: format!("{},{}{},{}", scores, sections, scored_yahtzee, chips)
State_compact_fmt(s) ==
    Joined(Joined(ToString(s.score[0]), ToString(s.score[1])),
           Joined(Digits(s.used[US], 0), Digits(s.used[LS], 0)))
    \o (IF s.scored_yahtzee THEN "1" ELSE "0") \o "," \o ToString(s.chips)

\* The key of a call (the convert expressions of the #[cached] attributes)
CacheKey(call, r) ==
    CASE call.fn = "probability_to_roll" ->
           PartialHand_compact_fmt(call.hand) \o r.dice.short_name
      [] call.fn = "choose_reroll" ->
           State_compact_fmt(call.s) \o r.short_name
           \o PartialHand_compact_fmt(call.hand) \o "," \o ToString(call.n)
      [] call.fn = "choose_field" ->
           State_compact_fmt(call.s) \o r.short_name \o PartialHand_compact_fmt(call.hand)

\* Highest score of the states keys are made of
MaxKeyScore == 11

KeyRules == {"y", "t"}

\* States of a game under the rules: any fields used, scores of one and of
\* two digits, any number of chips left
KeyStates(r) ==
    {[score |-> Vec(score), used |-> u, scored_yahtzee |-> y, chips |-> c] :
       score \in {<<0, 0>>, <<1, MaxKeyScore>>, <<MaxKeyScore, 1>>},
       u \in UsedMasks(r), y \in BOOLEAN, c \in 0..r.chips}

\* Hands of up to two dice, of the same kind or not
KeyHands == {<<>>, <<<<D2, 1>>>>, <<<<D6, 1>>>>, <<<<D2, 1>>, <<D2, 1>>>>,
             <<<<D2, 1>>, <<D6, 1>>>>}

\* The calls of the memoized functions under the rules
KeyCalls(r) ==
    {Call("probability_to_roll", Unobserved, hand, 0) : hand \in KeyHands}
    \cup {Call("choose_reroll", s, hand, n) :
            s \in KeyStates(r), hand \in KeyHands, n \in {-1, 0, REROLLS}}
    \cup {Call("choose_field", s, hand, 0) : s \in KeyStates(r), hand \in KeyHands}

KeyInit ==
    /\ rules \in KeyRules
    /\ last \in KeyCalls(RulesNamed(rules))
    /\ state = Unobserved
    /\ rerolls = 0
    /\ turn = Unobserved
    /\ card = <<>>
    /\ score_card = <<>>
    /\ offered = [kind |-> "None"]
    /\ memo = Unobserved
    /\ workers = Unobserved

\* The key of the call is made
MakeKey ==
    /\ last.kind = "Call"
    /\ \E key \in {CacheKey(last, RulesNamed(rules))} :
          last' = [kind |-> "Key", call |-> last, key |-> key]
    /\ UNCHANGED <<rules, state, rerolls, turn, card, score_card, offered, memo, workers>>

KeyNext == MakeKey

KeySpec == KeyInit /\ [][KeyNext]_vars

\* ------------------------------------------------------------------------
\* The stores of the memoized functions: calls by the workers of the pool
\* (#[cached] at strategy.rs:141, 204, 294) and restore_caches (caching.rs)
\* ------------------------------------------------------------------------
\* Two threads of the pool that into_par_iter runs the candidates on
Workers == {"w1", "w2"}

\* Bound: the highest number in a version
MaxVersion == 1

Functions == {"probability_to_roll", "choose_reroll", "choose_field"}

\* A store without entries
NoEntries == [k \in {} |-> Unobserved]

\* cache_set(k, v)
Put(store, key, value) ==
    [k \in DOMAIN store \cup {key} |-> IF k = key THEN value ELSE store[k]]

\* cache_set of every entry of a dump (populate!, strategy.rs:417-424)
Populated(store, dump) ==
    [k \in DOMAIN store \cup DOMAIN dump |-> IF k \in DOMAIN dump THEN dump[k] ELSE store[k]]

\* populate_caches: every store takes the entries of its dump
populate_caches(stores, caches) ==
    [fn \in Functions |-> Populated(stores[fn], caches[fn])]

\* Versions major.minor.patch
Versions == (0..MaxVersion) \X (0..MaxVersion) \X (0..MaxVersion)

\* A requirement that keeps the patch of the version it was parsed from
PatchKept(req) == req

\* req.comparators[0].patch = Some(0) (caching.rs:79)
PatchIgnored(req) == [req EXCEPT !.patch = 0]

\* VersionReq::parse("~major.minor.patch"): one comparator of the tilde kind
TildeOf(version) ==
    [op |-> "~", major |-> version[1], minor |-> version[2], patch |-> version[3]]

\* req.matches(version) for a tilde comparator with minor and patch given:
\* same major, same minor, patch not below
matches(req, version) ==
    /\ version[1] = req.major
    /\ version[2] = req.minor
    /\ version[3] >= req.patch

\* restore_caches on a file that may not open, may not decode, may hold a
\* version that does not parse (<<>>), and the stores afterwards
restore_caches(file, running, stores) ==
    IF ~file.opens THEN [ok |-> FALSE, stores |-> stores]
    ELSE IF ~file.decodes THEN [ok |-> FALSE, stores |-> stores]
    ELSE IF file.version \notin Versions THEN [ok |-> FALSE, stores |-> stores]
    ELSE IF ~matches(PatchIgnored(TildeOf(file.version)), running)
    THEN [ok |-> FALSE, stores |-> stores]
    ELSE [ok |-> TRUE, stores |-> populate_caches(stores, file.caches)]

\* The state the calls are made on: the one field of the rules unused, no
\* chip, so that choose_reroll at the end of the turn calls choose_field
\* only and choose_field calls nothing
CacheState(r) == [new_from_rules(r) EXCEPT !.chips = 0]

CacheCalls(r) ==
    {Call("probability_to_roll", Unobserved, <<>>, 0),
     Call("choose_field", CacheState(r), <<<<D2, 2>>>>, 0),
     Call("choose_reroll", CacheState(r), <<<<D2, 2>>>>, 0)}

\* Results that no call computes ("simple nonsense results" of
\* test_restore_caches)
Nonsense(call) ==
    CASE call.fn = "probability_to_roll" -> [h \in {<<>>} |-> RInt(1)]
      [] call.fn = "choose_reroll" ->
           [hand |-> <<>>, state |-> call.s, expectation |-> RInt(7)]
      [] call.fn = "choose_field" ->
           [section |-> US, field |-> 0, state |-> call.s, expectation |-> RInt(7)]

\* Dumps a file can hold: of some of the functions, with nonsense results
FileCaches(r) ==
    {[fn \in Functions |->
        [key \in {CacheKey(c, r) : c \in {c \in CacheCalls(r) : c.fn = fn /\ fn \in fns}} |->
           Nonsense(CHOOSE c \in CacheCalls(r) : c.fn = fn)]] :
       fns \in {{}, {"choose_field"}, Functions}}

Files(r) ==
    {[opens |-> FALSE, decodes |-> FALSE, version |-> <<>>, caches |-> Unobserved],
     [opens |-> TRUE, decodes |-> FALSE, version |-> <<>>, caches |-> Unobserved]}
    \cup {[opens |-> TRUE, decodes |-> TRUE, version |-> v, caches |-> c] :
            v \in Versions \cup {<<>>}, c \in FileCaches(r)}

\* A call in progress: its key, how far it is (lookup, body, store), the
\* result of the memoized call its body made, its own result
Frame(call, r) ==
    [call |-> call, key |-> CacheKey(call, r), phase |-> "lookup",
     sub |-> Unobserved, value |-> Unobserved]

\* Does the body still have a memoized call to make: choose_reroll at the
\* end of the turn calls choose_field first (strategy.rs:216)
CallsFirst(frame) == frame.call.fn = "choose_reroll" /\ frame.sub = Unobserved

\* The result of the body
BodyValue(frame, r) ==
    CASE frame.call.fn = "probability_to_roll" ->
           probability_to_roll(frame.call.hand, r.dice).table
      [] frame.call.fn = "choose_field" ->
           choose_field(frame.call.s, frame.call.hand, r)
      [] frame.call.fn = "choose_reroll" ->
           [hand |-> frame.call.hand, state |-> frame.sub.state,
            expectation |-> frame.sub.expectation]

CacheInit ==
    /\ rules = "y"
    /\ memo = [fn \in Functions |-> NoEntries]
    /\ workers = [w \in Workers |-> <<>>]
    /\ last = [kind |-> "None"]
    /\ \E running \in Versions :
          offered = [version |-> running, file |-> Unobserved]
    /\ state = Unobserved
    /\ rerolls = 0
    /\ turn = Unobserved
    /\ card = <<>>
    /\ score_card = <<>>

\* The innermost call of a worker
Top(w) == workers[w][Len(workers[w])]

\* A worker calls a memoized function
Begin(w, call) ==
    /\ workers[w] = <<>>
    /\ workers' = [workers EXCEPT ![w] = <<Frame(call, RulesNamed(rules))>>]
    /\ last' = [kind |-> "Began", worker |-> w]
    /\ UNCHANGED <<rules, state, rerolls, turn, card, score_card, offered, memo>>

\* The innermost call of the worker ends with the value: its caller goes
\* on with it, or the worker is free again
Finish(w, value, hit) ==
    \E stack \in {workers[w]} :
       IF Len(stack) = 1
       THEN /\ workers' = [workers EXCEPT ![w] = <<>>]
            /\ last' = [kind |-> "Returned", worker |-> w, call |-> stack[1].call,
                        key |-> stack[1].key, value |-> value, hit |-> hit]
       ELSE /\ workers' = [workers EXCEPT ![w] =
                             [k \in 1..(Len(stack) - 1) |->
                                IF k = Len(stack) - 1
                                THEN [stack[k] EXCEPT !.sub = value]
                                ELSE stack[k]]]
            /\ last' = last

\* The store is locked, looked up and unlocked: a hit returns the stored
\* value, a miss lets the body run
Lookup(w) ==
    /\ workers[w] # <<>>
    /\ Top(w).phase = "lookup"
    /\ \E top \in {Top(w)} :
          IF top.key \in DOMAIN memo[top.call.fn]
          THEN Finish(w, memo[top.call.fn][top.key], TRUE)
          ELSE /\ workers' = [workers EXCEPT ![w][Len(workers[w])].phase = "body"]
               /\ last' = last
    /\ UNCHANGED <<rules, state, rerolls, turn, card, score_card, offered, memo>>

\* The body runs, the store not locked: it makes its memoized call, or it
\* has its result
Body(w) ==
    /\ workers[w] # <<>>
    /\ Top(w).phase = "body"
    /\ \E top \in {Top(w)} :
          IF CallsFirst(top)
          THEN workers' = [workers EXCEPT ![w] =
                             Append(@, Frame(Call("choose_field", top.call.s,
                                                  top.call.hand, 0),
                                             RulesNamed(rules)))]
          ELSE \E value \in {BodyValue(top, RulesNamed(rules))} :
                  workers' = [workers EXCEPT ![w][Len(workers[w])] =
                                [top EXCEPT !.phase = "store", !.value = value]]
    /\ UNCHANGED <<rules, state, rerolls, last, turn, card, score_card, offered, memo>>

\* The store is locked, the result set and the store unlocked
Store(w) ==
    /\ workers[w] # <<>>
    /\ Top(w).phase = "store"
    /\ \E top \in {Top(w)} :
          /\ memo' = [memo EXCEPT ![top.call.fn] = Put(@, top.key, top.value)]
          /\ Finish(w, top.value, FALSE)
    /\ UNCHANGED <<rules, state, rerolls, turn, card, score_card, offered>>

\* restore_caches, called while no strategy call is running (main.rs:42-44)
Restore(file) ==
    /\ \A w \in Workers : workers[w] = <<>>
    /\ \E r \in {restore_caches(file, offered.version, memo)} :
          /\ memo' = r.stores
          /\ last' = [kind |-> "Restore", ok |-> r.ok, file |-> file]
          /\ offered' = [offered EXCEPT !.file = IF r.ok THEN file ELSE @]
    /\ UNCHANGED <<rules, state, rerolls, turn, card, score_card, workers>>

\* The workers of the pool call the memoized functions
CacheNext ==
    \/ \E w \in Workers, call \in CacheCalls(RulesNamed(rules)) : Begin(w, call)
    \/ \E w \in Workers : Lookup(w)
    \/ \E w \in Workers : Body(w)
    \/ \E w \in Workers : Store(w)

CacheSpec == CacheInit /\ [][CacheNext]_vars

\* The main thread calls the memoized functions and restore_caches
RestoreNext ==
    \/ \E call \in CacheCalls(RulesNamed(rules)) : Begin("w1", call)
    \/ Lookup("w1")
    \/ Body("w1")
    \/ Store("w1")
    \/ \E file \in Files(RulesNamed(rules)) : Restore(file)

RestoreSpec == CacheInit /\ [][RestoreNext]_vars

\* ------------------------------------------------------------------------
\* Properties of the game (Spec)
\* ------------------------------------------------------------------------
\* Sum of the scores written into upper-section fields
UpperSum(c) == SumSeq([i \in 1..Len(c) |-> IF c[i].section = US THEN c[i].score ELSE 0])

\* Number of fields of the rules
NumFields(r) == VLen(r.fields[US]) + VLen(r.fields[LS])

\* C1: recommend, called with a hand that matches the dice rules: if the
\* keep-set of choose_reroll is the entire hand it returns Field(section,
\* field) as chosen by choose_field, takes choose_field's state and resets
\* rerolls to the start-of-turn value REROLLS; otherwise it returns
\* Reroll(keep-set) and decrements rerolls by exactly one.
C1_FieldResetsToREROLLS ==
    [][\A reroll_recomm \in {choose_reroll(state, last'.hand, rerolls, RulesNamed(rules))},
          field_recomm \in {choose_field(state, last'.hand, RulesNamed(rules))} :
          IF reroll_recomm.hand = last'.hand
          THEN /\ last'.result = [kind |-> "Field", section |-> field_recomm.section,
                                  field |-> field_recomm.field]
               /\ state' = field_recomm.state
               /\ rerolls' = REROLLS
          ELSE /\ last'.result = [kind |-> "Reroll", hand |-> reroll_recomm.hand]
               /\ rerolls' = rerolls - 1]_vars

\* C2: a chip grants exactly one additional reroll: a turn that starts with
\* rerolls = REROLLS has at most REROLLS + 1 Reroll recommendations, and the
\* hand observed after the chip-paid reroll (rerolls = -1) is answered with
\* a Field recommendation.
C2_ChipGrantsOneReroll ==
    [][/\ turn.rerolls = REROLLS => turn'.rerolled <= REROLLS + 1
       /\ rerolls = -1 => last'.kind = "Field"]_vars

\* C3: at most one chip is consumed per turn: since the last Field
\* recommendation chips went down by at most one, choose_reroll with
\* rerolls = 0 returns a state with the chips of its input or one less, and
\* chips never increase.
C3_AtMostOneChipPerTurn ==
    /\ [](/\ turn.chips - state.chips \in {0, 1}
          /\ \A observed \in ObservedHands(RulesNamed(rules)) :
                \A r \in {choose_reroll(state, SortHand(observed), 0, RulesNamed(rules))} :
                   r.state.chips \in {state.chips, state.chips - 1})
    /\ [][state'.chips <= state.chips]_vars

\* C3 witness: a chip was spent by the Reroll recommendation at rerolls = 0
C3_ChipSpentThisTurn ==
    /\ last.kind = "Reroll"
    /\ last.rerolls = 0
    /\ turn.chips - state.chips = 1

\* C4: choose_reroll with rerolls = 0 returns the chip recommendation (its
\* keep-set, its expectation, chips reduced by one) if and only if chips > 0
\* and choose_reroll(chips - 1, hand, -1) expects strictly more than
\* choose_field; otherwise, and always for rerolls = -2, it returns the whole
\* hand with choose_field's state and expectation and no chip spent.
C4_ChipIffStrictlyBetter ==
    \A observed \in ObservedHands(RulesNamed(rules)) :
       \A hand \in {SortHand(observed)} :
          \A stop_now \in {choose_field(state, hand, RulesNamed(rules))},
             r0 \in {choose_reroll(state, hand, 0, RulesNamed(rules))},
             r2 \in {choose_reroll(state, hand, -2, RulesNamed(rules))} :
             /\ stop_now.state.chips = state.chips
             /\ r2 = [hand |-> hand, state |-> stop_now.state,
                      expectation |-> stop_now.expectation]
             /\ IF state.chips > 0
                THEN \A use_chip \in {choose_reroll([state EXCEPT !.chips = @ - 1], hand, -1,
                                                     RulesNamed(rules))} :
                        IF RGt(use_chip.expectation, stop_now.expectation)
                        THEN /\ r0 = [hand |-> use_chip.hand, state |-> use_chip.state,
                                      expectation |-> use_chip.expectation]
                             /\ r0.state.chips = state.chips - 1
                        ELSE r0 = [hand |-> hand, state |-> stop_now.state,
                                   expectation |-> stop_now.expectation]
                ELSE r0 = [hand |-> hand, state |-> stop_now.state,
                           expectation |-> stop_now.expectation]

\* C4 witness: the ViewModel was given the chip recommendation, in a state
\* where another hand makes chip and stop tie
C4_ChipRecommended ==
    /\ last.kind = "Reroll"
    /\ last.rerolls = 0
    /\ last.state.chips > 0
    /\ \E observed \in ObservedHands(RulesNamed(rules)) :
          choose_reroll([last.state EXCEPT !.chips = @ - 1], SortHand(observed), -1,
                        RulesNamed(rules)).expectation
          = choose_field(last.state, SortHand(observed), RulesNamed(rules)).expectation

\* C5: every Field recommendation names a field no earlier one named, and
\* after as many Field recommendations as the rules have fields every entry
\* of state.used is true.
C5_EveryFieldOnce ==
    /\ \A i, j \in 1..Len(card) :
          i # j => <<card[i].section, card[i].field>> # <<card[j].section, card[j].field>>
    /\ Len(card) >= NumFields(RulesNamed(rules)) =>
          \A section \in DOMAIN state.used :
             \A field \in DOMAIN state.used[section] : state.used[section][field]

\* C6: choose_field returns a field that is unused in its input, and the
\* returned used mask is the input's with exactly this field marked used,
\* with several fields open as well as for the last open field.
C6_ChosenFieldMarkedUsed ==
    \A observed \in ObservedHands(RulesNamed(rules)) :
       \A r \in {choose_field(state, SortHand(observed), RulesNamed(rules))} :
          /\ ~state.used[r.section][r.field]
          /\ r.state.used = [state.used EXCEPT ![r.section][r.field] = TRUE]

\* C7 as stated: after any sequence of field choices score[US] contains the
\* bonus exactly once if the sum of upper-section field scores has reached
\* the threshold, and no bonus otherwise.
C7_BonusOnceThresholdReached ==
    state.score[US] = UpperSum(card)
                      + (IF UpperSum(card) >= RulesNamed(rules).us_bonus.threshold
                         THEN RulesNamed(rules).us_bonus.bonus ELSE 0)

\* C7: the upper-section bonus is added by the update that writes the last
\* open field and by no other: that update adds the bonus iff score[US],
\* the field just written included, has reached the threshold; an update
\* made while several fields are open adds the field's score only.
C7_BonusOnlyWithLastField ==
    [][last'.kind = "Field" =>
         LET written == card'[Len(card')]
             base == state.score[US] + (IF written.section = US THEN written.score ELSE 0)
         IN state'.score[US] =
               base + (IF /\ Len(AvailableFields(state)) = 1
                          /\ base >= RulesNamed(rules).us_bonus.threshold
                       THEN RulesNamed(rules).us_bonus.bonus ELSE 0)]_vars

\* C7 witness: the last open field was written and the bonus was added
C7_BonusAddedAtEnd ==
    /\ last.kind = "Field"
    /\ Len(AvailableFields(last.state)) = 1
    /\ RulesNamed(rules).us_bonus.bonus > 0
    /\ state.score[US] >= RulesNamed(rules).us_bonus.threshold
                          + RulesNamed(rules).us_bonus.bonus
    /\ \E i \in 1..Len(card) : card[i].section = US /\ card[i].score > 0

\* ------------------------------------------------------------------------
\* Properties of the field updates (FieldSpec)
\* ------------------------------------------------------------------------
\* Is this the lower-section Yahtzee field of the rules ("All Twos" is the
\* Yahtzee field of the rules of test_choose_field)
IsYahtzeeField(r, section, field) ==
    section = LS /\ r.fields[section][field] \in {"Yahtzee", "All Twos"}

\* The same rules with the NONE Yahtzee-bonus policy
WithoutYahtzeeBonus(r) == [r EXCEPT !.yahtzee_bonus = [short_name |-> "NONE"]]

\* Most open fields a state may have for the expectations of its fields
\* to be computed
MaxOpenEval == 2

\* C8: in every state update of choose_field, for every rules variant,
\* scored_yahtzee changes from false to true only if the field written is
\* the lower-section Yahtzee field and the score written is positive, and
\* scored_yahtzee = true is never followed by scored_yahtzee = false.
C8_ScoredYahtzeeOnlyByYahtzee ==
    [][/\ (~state.scored_yahtzee /\ state'.scored_yahtzee) =>
             /\ IsYahtzeeField(RulesNamed(rules), last'.result.section, last'.result.field)
             /\ card'[Len(card')].score > 0
       /\ state.scored_yahtzee => state'.scored_yahtzee]_vars

C10_BonusOnlyWhenEligible ==
    /\ [][last'.kind = "Field" /\ card' # card =>
            LET r == RulesNamed(rules)
                hand == Pips(last'.hand)
                section == last'.result.section
                field == last'.result.field
                applies == /\ state.scored_yahtzee
                           /\ r.yahtzee_bonus.short_name # "NONE"
                           /\ ScoreFunction(r.fields[LS][YAHTZEE_INDEX], hand) > 0
                sb == IF applies
                      THEN YahtzeeBonusRules(r.yahtzee_bonus.short_name, state.used,
                                             hand[1], section, field)
                      ELSE <<ScoreFunction(r.fields[section][field], hand), 0>>
                plain == AddScore(state.score, section, sb)
            IN state'.score =
                  IF Len(AvailableFields(state)) = 1 /\ plain[US] >= r.us_bonus.threshold
                  THEN [plain EXCEPT ![US] = @ + r.us_bonus.bonus]
                  ELSE plain]_vars
    /\ [](offered.kind = "Offer" =>
            /\ offered.policy = "NONE" => offered.score_cards = <<>>
            /\ offered.score_card[LS][YAHTZEE_INDEX] <= 0 => offered.score_cards = <<>>)

\* C10 witness: KNIFFEL was called on a score card whose Yahtzee field was
\* scored as zero and returned no placement
C10_NoOfferForZeroedYahtzee ==
    /\ offered.kind = "Offer"
    /\ offered.policy = "KNIFFEL"
    /\ offered.score_card[LS][YAHTZEE_INDEX] = 0
    /\ offered.score_cards = <<>>
    /\ last.kind = "Field"
    /\ last.result = [kind |-> "Field", section |-> LS, field |-> YAHTZEE_INDEX]

\* ------------------------------------------------------------------------
\* Properties of the Yahtzee-bonus policies (BonusSpec)
\* ------------------------------------------------------------------------
\* The last call was of this policy, on a card eligible for the bonus
EligibleOffer(policy) ==
    /\ offered.kind = "Offer"
    /\ offered.policy = policy
    /\ offered.score_card[LS][YAHTZEE_INDEX] > 0

\* The card after `score` was placed into the field and `bonus` was added
\* to the Yahtzee field
Placed(c, section, field, score, bonus) ==
    [[c EXCEPT ![LS][YAHTZEE_INDEX] = @ + bonus] EXCEPT ![section][field] = score]

\* Unused fields of a section of a card
OpenFields(c, section) == {f \in DOMAIN c[section] : c[section][f] < 0}

\* The cards a policy returned, as a set
OfferedCards == {offered.score_cards[k] : k \in 1..Len(offered.score_cards)}

\* C11: FORCED_JOKER, called for a Yahtzee of pip p on a card that is
\* eligible for the bonus and whose upper-section field p - 1 is unused,
\* returns exactly one card: the upper field holds 5 * p and the Yahtzee
\* field 100 more, every other field is as it was; no card places the
\* Yahtzee into the lower section.
C11_ForcedJokerUpperFirst ==
    (EligibleOffer("FORCED_JOKER") /\ offered.score_card[US][offered.pip - 1] < 0)
    => offered.score_cards
       = <<Placed(offered.score_card, US, offered.pip - 1, 5 * offered.pip, 100)>>

\* C11 witness: FORCED_JOKER was called on an eligible card with the upper
\* field of the pip unused while joker fields and other lower-section
\* fields were unused too
C11_UpperFieldForced ==
    /\ EligibleOffer("FORCED_JOKER")
    /\ offered.score_card[US][offered.pip - 1] < 0
    /\ {0, 2, 3, 4, 6} \subseteq OpenFields(offered.score_card, LS)
    /\ Len(offered.score_cards) = 1

\* What a Yahtzee of pip p scores in a lower-section field as a joker
JokerScore(field, pip) ==
    CASE field = 2 -> 25
      [] field = 3 -> 30
      [] field = 4 -> 40
      [] OTHER -> 5 * pip

\* C12: FORCED_JOKER, called for a Yahtzee of pip p on an eligible card whose
\* upper-section field p - 1 is used, returns one card for every unused
\* lower-section field and no other card while there is such a field: Full
\* House, Small Straight and Large Straight hold 25, 30 and 40, any other
\* field 5 * p, the Yahtzee field 100 more, and every other field is as it
\* was; only when no lower-section field is unused the cards are those with
\* one unused upper-section field zeroed (and the 100 added).
C12_ForcedJokerLowerSection ==
    (EligibleOffer("FORCED_JOKER") /\ offered.score_card[US][offered.pip - 1] >= 0)
    => IF OpenFields(offered.score_card, LS) # {}
       THEN /\ Len(offered.score_cards) = Cardinality(OpenFields(offered.score_card, LS))
            /\ OfferedCards =
                  {Placed(offered.score_card, LS, f, JokerScore(f, offered.pip), 100) :
                     f \in OpenFields(offered.score_card, LS)}
       ELSE /\ Len(offered.score_cards) = Cardinality(OpenFields(offered.score_card, US))
            /\ OfferedCards =
                  {Placed(offered.score_card, US, f, 0, 100) :
                     f \in OpenFields(offered.score_card, US)}

\* C12 witness: FORCED_JOKER was called with the upper field of the pip
\* used, a joker field and another lower-section field unused and Chance
\* used, and returned cards
C12_LowerSectionOffered ==
    /\ EligibleOffer("FORCED_JOKER")
    /\ offered.score_card[US][offered.pip - 1] >= 0
    /\ {0, 2} \subseteq OpenFields(offered.score_card, LS)
    /\ offered.score_card[LS][6] > 0
    /\ OpenFields(offered.score_card, US) # {}
    /\ Len(offered.score_cards) > 1

\* C13: FREE_JOKER, called for a Yahtzee of pip p on an eligible card: the
\* card with 25, 30 or 40 in an unused Full House, Small Straight or Large
\* Straight is returned if and only if the upper-section field p - 1 is
\* used, and no card fills such a field otherwise; for every other unused
\* lower-section field the card with 5 * p in it is returned; when the upper
\* field p - 1 is unused the card with 5 * p in it is returned; and every
\* card returned holds 100 more in the Yahtzee field.
C13_FreeJokerPlacements ==
    EligibleOffer("FREE_JOKER")
    => /\ \A c \in OfferedCards :
             c[LS][YAHTZEE_INDEX] = offered.score_card[LS][YAHTZEE_INDEX] + 100
       /\ \A f \in OpenFields(offered.score_card, LS) \cap {2, 3, 4} :
             /\ Placed(offered.score_card, LS, f, JokerScore(f, offered.pip), 100)
                   \in OfferedCards
                <=> offered.score_card[US][offered.pip - 1] >= 0
             /\ \A c \in OfferedCards :
                   c[LS][f] >= 0 => offered.score_card[US][offered.pip - 1] >= 0
       /\ \A f \in OpenFields(offered.score_card, LS) \ {2, 3, 4} :
             Placed(offered.score_card, LS, f, 5 * offered.pip, 100) \in OfferedCards
       /\ offered.score_card[US][offered.pip - 1] < 0 =>
             Placed(offered.score_card, US, offered.pip - 1, 5 * offered.pip, 100)
                \in OfferedCards

\* C13 witness: FREE_JOKER was called with the upper field of the pip
\* unused and Full House, Three of a Kind and Chance unused, and returned
\* the upper-section card and lower-section cards
C13_JokerFieldsWithheld ==
    /\ EligibleOffer("FREE_JOKER")
    /\ offered.score_card[US][offered.pip - 1] < 0
    /\ {0, 2, 6} \subseteq OpenFields(offered.score_card, LS)
    /\ Len(offered.score_cards) >= 3

\* C14: KNIFFEL, called for a Yahtzee of pip p on an eligible card, adds 50
\* to the Yahtzee field of every card it returns; when the upper-section
\* field p - 1 is unused it returns the one card with 5 * p in that field;
\* otherwise it returns one card for every unused field of either section,
\* with zero in that field, so that Full House, Small Straight and Large
\* Straight are never filled with 25, 30 or 40.
C14_KniffelZeroes ==
    EligibleOffer("KNIFFEL")
    => IF offered.score_card[US][offered.pip - 1] < 0
       THEN offered.score_cards
            = <<Placed(offered.score_card, US, offered.pip - 1, 5 * offered.pip, 50)>>
       ELSE /\ Len(offered.score_cards)
               = Cardinality(OpenFields(offered.score_card, US))
                 + Cardinality(OpenFields(offered.score_card, LS))
            /\ OfferedCards =
                  {Placed(offered.score_card, US, f, 0, 50) :
                     f \in OpenFields(offered.score_card, US)}
                  \cup {Placed(offered.score_card, LS, f, 0, 50) :
                          f \in OpenFields(offered.score_card, LS)}

\* C14 witness: KNIFFEL was called with the upper field of the pip used
\* and Full House, Small Straight and Large Straight unused, and returned
\* cards
C14_JokerFieldsZeroed ==
    /\ EligibleOffer("KNIFFEL")
    /\ offered.score_card[US][offered.pip - 1] >= 0
    /\ {2, 3, 4} \subseteq OpenFields(offered.score_card, LS)
    /\ OpenFields(offered.score_card, US) # {}
    /\ Len(offered.score_cards) >= 4

\* ------------------------------------------------------------------------
\* Properties of probability_to_roll (RollSpec)
\* ------------------------------------------------------------------------
\* Dice of one kind in a partial hand
HaveCount(have, die) == Cardinality({i \in 1..Len(have) : have[i][1] = die})

\* Dice of one kind the rules provide
RulesCount(dice, die) ==
    SumSeq([k \in 1..Len(dice) |-> IF dice[k][1] = die THEN dice[k][2] ELSE 0])

\* `have` fits the rules: of no kind it holds more dice than the rules
Fits(have, dice) ==
    \A i \in 1..Len(have) : HaveCount(have, have[i][1]) <= RulesCount(dice, have[i][1])

\* The dice still to be thrown, one entry per die
RECURSIVE RemainingDice(_, _, _)
RemainingDice(have, dice, k) ==
    IF k > Len(dice) THEN <<>>
    ELSE [i \in 1..(dice[k][2] - HaveCount(have, dice[k][1])) |-> dice[k][1]]
         \o RemainingDice(have, dice, k + 1)

\* Ordered outcomes of throwing these dice
ThrowOutcomes(remaining) ==
    {o \in [1..Len(remaining) -> 0..9] :
       \A i \in 1..Len(remaining) : remaining[i][1] <= o[i] /\ o[i] <= remaining[i][2]}

\* A hand as a multiset of (die, pip)
BagOfHand(hand) ==
    [e \in {hand[i] : i \in 1..Len(hand)} |->
       Cardinality({i \in 1..Len(hand) : hand[i] = e})]

\* Ordered outcomes that make `have` the hand h
Ways(have, remaining, h) ==
    Cardinality({o \in ThrowOutcomes(remaining) :
                   BagOfHand(have \o [i \in 1..Len(remaining) |-> <<remaining[i], o[i]>>])
                   = BagOfHand(h)})

\* product of (max - min + 1) over the dice still to be thrown
RECURSIVE ProductOfSides(_)
ProductOfSides(remaining) ==
    IF remaining = <<>> THEN 1
    ELSE (Head(remaining)[2] - Head(remaining)[1] + 1) * ProductOfSides(Tail(remaining))

\* The pips of a hand as one number, to split a set of hands by
PipCode(h) == SumSeq([i \in 1..Len(h) |-> h[i][2] * Pow(11, i - 1)])

\* Hands of `hands` with a smaller code than h
Below(hands, h) == {x \in hands : PipCode(x) < PipCode(h)}

\* A hand from the middle of a set of hands
Middle(hands) ==
    CHOOSE x \in hands :
       /\ Cardinality(Below(hands, x)) <= Cardinality(hands) \div 2
       /\ \A y \in hands :
             Cardinality(Below(hands, y)) <= Cardinality(hands) \div 2
             => Cardinality(Below(hands, y)) <= Cardinality(Below(hands, x))

\* Sum of the probabilities of `hands`: a hand from the middle of the set,
\* the hands below it and the other hands
RECURSIVE SumOfTable(_, _)
SumOfTable(hands, table) ==
    IF hands = {} THEN RInt(0)
    ELSE Let({Let({RAdd(table[h], RAdd(lower, upper)) :
                     lower \in {SumOfTable(Below(hands, h), table)},
                     upper \in {SumOfTable((hands \ {h}) \ Below(hands, h), table)}}) :
                h \in {Middle(hands)}})

\* C15: for every `have` that fits the dice rules probability_to_roll
\* returns a table whose keys are the full hands `have` can be extended to,
\* one key per hand; the probability of a hand is the number of ordered
\* outcomes of the remaining dice that give it, divided by the product of
\* (max - min + 1) over the remaining dice; every probability is above
\* zero, the outcome counts sum to that product and the probabilities to 1.
C15_ProbabilitiesOfOutcomes ==
    (last.kind = "Roll" /\ Fits(last.have, DiceRulesNamed(rules).dice))
    => /\ last.outcome.kind = "Table"
       /\ \A remaining \in {RemainingDice(last.have, DiceRulesNamed(rules).dice, 1)},
             table \in {last.outcome.table} :
             /\ Cardinality(ThrowOutcomes(remaining)) = ProductOfSides(remaining)
             /\ \A h \in DOMAIN table :
                   /\ Len(h) = SumFreq(DiceRulesNamed(rules).dice)
                   /\ Ways(last.have, remaining, h) > 0
                   /\ table[h] = RNorm(Ways(last.have, remaining, h),
                                       ProductOfSides(remaining))
                   /\ table[h][1] > 0 /\ table[h][2] > 0
             /\ \A h1, h2 \in DOMAIN table : BagOfHand(h1) = BagOfHand(h2) => h1 = h2
             /\ \A o \in ThrowOutcomes(remaining) :
                   \E h \in DOMAIN table :
                      BagOfHand(last.have
                                \o [i \in 1..Len(remaining) |-> <<remaining[i], o[i]>>])
                      = BagOfHand(h)
             /\ SumOfTable(DOMAIN table, table) = RInt(1)

\* C15 witness: probability_to_roll returned a table for a hand that holds
\* a die already, under rules with dice of two kinds, with two dice still
\* to throw and hands of different probabilities
C15_TableOfUnequalChances ==
    /\ last.kind = "Roll"
    /\ Len(last.have) > 0
    /\ Fits(last.have, DiceRulesNamed(rules).dice)
    /\ last.outcome.kind = "Table"
    /\ Len(DiceRulesNamed(rules).dice) > 1
    /\ Len(RemainingDice(last.have, DiceRulesNamed(rules).dice, 1)) > 1
    /\ \E h1, h2 \in DOMAIN last.outcome.table :
          last.outcome.table[h1] # last.outcome.table[h2]

\* C16: probability_to_roll panics whenever `have` holds a die of a kind
\* the rules do not have, or more dice of a kind than the rules provide.
C16_MismatchPanics ==
    (last.kind = "Roll" /\ ~Fits(last.have, DiceRulesNamed(rules).dice))
    => last.outcome.kind = "Panic"

\* ------------------------------------------------------------------------
\* Properties of recommend on hands that do not match the rules (HandSpec)
\* ------------------------------------------------------------------------
\* Dice of the kinds of the rules and of other kinds in a hand
MatchesDice(hand, dice) ==
    /\ \A k \in 1..Len(dice) : CountDie(hand, dice[k][1]) = dice[k][2]
    /\ \A i \in 1..Len(hand) : \E k \in 1..Len(dice) : hand[i][1] = dice[k][1]

\* C17: for every observed hand whose dice are not the dice of the rules
\* (too few, too many, or of a kind the rules do not have) recommend
\* returns an error and leaves state and rerolls as they were.
C17_MismatchedHandIsAnError ==
    (last.kind # "None" /\ ~MatchesDice(last.hand, RulesNamed(rules).dice.dice))
    => /\ last.kind = "Err"
       /\ state = last.state
       /\ rerolls = last.rerolls

\* ------------------------------------------------------------------------
\* Properties of choose_reroll and choose_field in the game (Spec)
\* ------------------------------------------------------------------------
\* The dice of a hand at the positions kept, in the order of the hand
RECURSIVE KeptDice(_, _, _)
KeptDice(hand, kept, i) ==
    IF i > Len(hand) THEN <<>>
    ELSE (IF i \in kept THEN <<hand[i]>> ELSE <<>>) \o KeptDice(hand, kept, i + 1)

\* Is every die of `part` in `hand` at least as often
IsSubHand(part, hand) ==
    \A i \in 1..Len(part) :
       Cardinality({j \in 1..Len(part) : part[j] = part[i]})
       <= Cardinality({j \in 1..Len(hand) : hand[j] = part[i]})

\* sum over (h, p) of the table of p * choose_reroll(state, h, rerolls - 1)
RECURSIVE ValueOfRolls(_, _, _, _, _)
ValueOfRolls(hands, table, s, n, r) ==
    IF hands = {} THEN RInt(0)
    ELSE LET h == CHOOSE x \in hands : TRUE
         IN RAdd(RMul(table[h], choose_reroll(s, h, n - 1, r).expectation),
                 ValueOfRolls(hands \ {h}, table, s, n, r))

\* What keeping the dice `keep` of `hand` is worth
ValueOfKeep(s, hand, n, r, keep) ==
    IF Len(keep) = Len(hand) THEN choose_field(s, hand, r).expectation
    ELSE Let({ValueOfRolls(DOMAIN table, table, s, n, r) :
              table \in {probability_to_roll(keep, r.dice).table}})

\* The values of all keep-sets of a hand, as <<keep, value>>
ValuesOfKeeps(s, hand, n, r) ==
    {<<keep, ValueOfKeep(s, hand, n, r, keep)>> :
       keep \in {KeptDice(hand, kept, 1) : kept \in SUBSET (1..Len(hand))}}

\* C18: with rerolls left, and on the chip reroll (rerolls = -1),
\* choose_reroll leaves the state alone and returns a keep-set that is part
\* of the hand together with its value, and no keep-set of the 2^|hand|
\* is worth more; keeping the whole hand is worth what choose_field
\* expects, any other keep-set the sum over the hands it can become of
\* probability * expectation of choose_reroll with a reroll less.
C18_BestKeepSet ==
    (last.kind \in {"Reroll", "Field"} /\ (last.rerolls > 0 \/ last.rerolls = -1))
    => \A recomm \in {choose_reroll(last.state, last.hand, last.rerolls, RulesNamed(rules))},
          values \in {ValuesOfKeeps(last.state, last.hand, last.rerolls, RulesNamed(rules))} :
          /\ recomm.state = last.state
          /\ IsSubHand(recomm.hand, last.hand)
          /\ <<recomm.hand, recomm.expectation>> \in values
          /\ \A v \in values : ~RGt(v[2], recomm.expectation)

\* C18 witness: choose_reroll was called with rerolls left on a hand of
\* which keeping one die was best, worth more than keeping all or none
C18_PartOfHandKept ==
    /\ last.kind = "Reroll"
    /\ last.rerolls > 0
    /\ Len(last.result.hand) > 0
    /\ Len(last.result.hand) < Len(last.hand)
    /\ \A recomm \in {choose_reroll(last.state, last.hand, last.rerolls, RulesNamed(rules))},
          values \in {ValuesOfKeeps(last.state, last.hand, last.rerolls, RulesNamed(rules))} :
          /\ recomm.hand = last.result.hand
          /\ \A v \in values : Len(v[1]) \in {0, Len(last.hand)}
                                  => RGt(recomm.expectation, v[2])

\* The unused fields of a state as <<section, field>>
StillUnused(s) ==
    {<<section, field>> \in {US, LS} \X (0..6) :
       field < VLen(s.used[section]) /\ ~s.used[section][field]}

\* The state with the score of a hand added to the section of the field,
\* the bonus to the lower section, and the field marked
StateWithField(s, hand, section, field, r) ==
    Let({[score |-> [sec \in DOMAIN s.score |->
                       s.score[sec] + (IF sec = section THEN sb[1] ELSE 0)
                                    + (IF sec = LS THEN sb[2] ELSE 0)],
          used |-> [sec \in DOMAIN s.used |->
                      [f \in DOMAIN s.used[sec] |->
                         s.used[sec][f] \/ (sec = section /\ f = field)]],
          scored_yahtzee |-> s.scored_yahtzee
                             \/ (sb[1] > 0 /\ section = LS /\ field = YAHTZEE_INDEX),
          chips |-> s.chips] :
         sb \in {FieldScore(s, Pips(hand), section, field, r)}})

\* What writing the hand into a field is worth: a fresh turn on the state
\* with the field, begun with no dice and two rerolls
ValueOfField(s, hand, section, field, r) ==
    choose_reroll(StateWithField(s, hand, section, field, r), <<>>, 2, r).expectation

\* C19: with more than one field unused choose_field returns an unused
\* field and the state updated for it, its expectation is that of
\* choose_reroll on this state with an empty hand at the start of a fresh
\* turn, and no unused field has a higher one; with exactly one field
\* unused the expectation is the sum of the two section scores of the
\* final state.
C19_BestField ==
    last.kind = "Field"
    => \A recomm \in {choose_field(last.state, last.hand, RulesNamed(rules))},
          unused \in {StillUnused(last.state)} :
          /\ <<recomm.section, recomm.field>> \in unused
          /\ last.result.section = recomm.section /\ last.result.field = recomm.field
          /\ state = recomm.state
          /\ Cardinality(unused) > 1
             => /\ recomm.state = StateWithField(last.state, last.hand, recomm.section,
                                                 recomm.field, RulesNamed(rules))
                /\ recomm.expectation = ValueOfField(last.state, last.hand, recomm.section,
                                                     recomm.field, RulesNamed(rules))
                /\ \A f \in unused :
                      ~RGt(ValueOfField(last.state, last.hand, f[1], f[2], RulesNamed(rules)),
                           recomm.expectation)
          /\ Cardinality(unused) = 1
             => recomm.expectation = RInt(state.score[US] + state.score[LS])

\* C19 witness: choose_field chose between two unused fields of which the
\* one it returned, the later one, is worth more than the other
C19_LaterFieldIsBetter ==
    /\ last.kind = "Field"
    /\ Cardinality(StillUnused(last.state)) > 1
    /\ \E f \in StillUnused(last.state) :
          /\ f[1] < last.result.section
          /\ RGt(ValueOfField(last.state, last.hand, last.result.section,
                               last.result.field, RulesNamed(rules)),
                  ValueOfField(last.state, last.hand, f[1], f[2], RulesNamed(rules)))

\* The candidates choose_reroll reduces, in the order of possible_hands
HandChances(s, hand, n, r) ==
    Let({[k \in 1..Len(possible_hands) |->
            HandChance(stop_now, rolled, r, possible_hands[k])] :
         possible_hands \in {PossibleHands(hand, 1, << <<>> >>)},
         stop_now \in {StopNow(s, hand, r, PossibleHands(hand, 1, << <<>> >>))},
         rolled \in {RolledExpectations(s, n, r, PossibleHands(hand, 1, << <<>> >>))}})

\* The candidates choose_field reduces, in the order of available_fields
FieldOptions(s, hand, r) ==
    Let({[k \in 1..Len(available_fields) |->
            FieldOption(s, Pips(hand), r, available_fields[k][1], available_fields[k][2])] :
         available_fields \in {AvailableFields(s)}})

\* The candidates the last call reduced: those of choose_reroll when it
\* was called with rerolls left or on the chip reroll, else those of
\* choose_field when more than one field was unused
Reduced ==
    IF last.kind \notin {"Reroll", "Field"} THEN <<>>
    ELSE IF last.rerolls > 0 \/ last.rerolls = -1
    THEN HandChances(last.state, last.hand, last.rerolls, RulesNamed(rules))
    ELSE IF last.kind = "Field" /\ Len(AvailableFields(last.state)) > 1
    THEN FieldOptions(last.state, last.hand, RulesNamed(rules))
    ELSE <<>>

\* What the reduction of adjacent candidates can give, over all groupings
RECURSIVE Groupings(_)
Groupings(candidates) ==
    IF Len(candidates) = 1 THEN {candidates[1]}
    ELSE UNION {{BestOf(a, b) :
                   a \in Groupings(SubSeq(candidates, 1, k)),
                   b \in Groupings(SubSeq(candidates, k + 1, Len(candidates)))} :
                k \in 1..(Len(candidates) - 1)}

\* The last of the candidates of the highest expectation
LastOfBest(candidates) ==
    candidates[CHOOSE k \in 1..Len(candidates) :
                 /\ \A j \in 1..Len(candidates) :
                       ~RGt(candidates[j].expectation, candidates[k].expectation)
                 /\ \A j \in (k + 1)..Len(candidates) :
                       RGt(candidates[k].expectation, candidates[j].expectation)]

\* What the last call recommended, as a candidate
Recommended ==
    IF last.rerolls > 0 \/ last.rerolls = -1
    THEN Let({[hand |-> recomm.hand, expectation |-> recomm.expectation] :
              recomm \in {choose_reroll(last.state, last.hand, last.rerolls,
                                        RulesNamed(rules))}})
    ELSE choose_field(last.state, last.hand, RulesNamed(rules))

\* C20 as claimed: the reduction operator is associative and commutative
\* on the candidates of a call, so that the result does not depend on the
\* order or the grouping in which they are combined, ties included.
C20_ReductionCommutes ==
    \A candidates \in {{Reduced[k] : k \in DOMAIN Reduced}} :
       \A a \in candidates, b \in candidates :
          /\ BestOf(a, b) = BestOf(b, a)
          /\ \A c \in candidates : BestOf(BestOf(a, b), c) = BestOf(a, BestOf(b, c))

\* C20 as amended: the reduction operator is associative on the
\* candidates of a call, every grouping of adjacent candidates in their
\* sequence order gives the one result the call returns, and of several
\* candidates of the highest expectation that is the last in the sequence.
C20_ReductionAssociates ==
    \A candidates \in {Reduced} \ {<<>>} :
       /\ \A a \in {candidates[k] : k \in 1..Len(candidates)},
             b \in {candidates[k] : k \in 1..Len(candidates)},
             c \in {candidates[k] : k \in 1..Len(candidates)} :
             BestOf(BestOf(a, b), c) = BestOf(a, BestOf(b, c))
       /\ Groupings(candidates) = {LastOfBest(candidates)}
       /\ Recommended = LastOfBest(candidates)

\* C20 witness: a call reduced candidates of which two of the highest
\* expectation recommend different actions
C20_TieOfTheBest ==
    \E candidates \in {Reduced} \ {<<>>} :
       \E j, k \in 1..Len(candidates) :
          /\ j < k
          /\ candidates[j] # candidates[k]
          /\ candidates[j].expectation = candidates[k].expectation
          /\ candidates[k] = LastOfBest(candidates)

\* ------------------------------------------------------------------------
\* Properties of the hand scorers (ScorerSpec)
\* ------------------------------------------------------------------------
\* How often a pip is in a hand
CountPip(hand, pip) == Cardinality({i \in 1..Len(hand) : hand[i] = pip})

\* Can the required sizes be given pairwise distinct groups of equal pips,
\* each of at least `least` dice and at least as large as its requirement
Assignable(required, hand, least) ==
    \E group \in [1..Len(required) -> {hand[i] : i \in 1..Len(hand)}] :
       /\ \A i, j \in 1..Len(required) : i # j => group[i] # group[j]
       /\ \A i \in 1..Len(required) :
             /\ CountPip(hand, group[i]) >= required[i]
             /\ CountPip(hand, group[i]) >= least

\* C23 as claimed: generic_identical returns v(hand) exactly when the
\* required sizes can be assigned to pairwise distinct groups of equal
\* pips, each at least as large as its requirement, and 0 otherwise.
C23_GroupsOfAnySize ==
    last.kind = "IdenticalScored"
    => last.score = IF Assignable(last.required, last.hand, 1)
                    THEN ScoreOf(last.scorer, last.hand) ELSE 0

\* C23 as amended: generic_identical returns v(hand) exactly when the
\* required sizes can be assigned to pairwise distinct groups of two or
\* more equal pips, each at least as large as its requirement, and 0
\* otherwise; a single die is no group, also for a required size of 1.
C23_GroupsOfTwoOrMore ==
    last.kind = "IdenticalScored"
    => last.score = IF Assignable(last.required, last.hand, 2)
                    THEN ScoreOf(last.scorer, last.hand) ELSE 0

\* C23 witness: five equal pips were scored as Full House [2, 3] and gave 0
C23_YahtzeeIsNoFullHouse ==
    /\ last.kind = "IdenticalScored"
    /\ last.required = <<2, 3>>
    /\ Len(last.hand) = 5
    /\ \A i \in 1..5 : last.hand[i] = last.hand[1]
    /\ last.score = 0

\* C24: generic_straight(L, S, hand) returns S exactly when the hand holds
\* L distinct pips that are consecutive values, whatever is repeated in
\* between, and 0 otherwise.
C24_StraightOfDistinctPips ==
    last.kind = "StraightScored"
    => last.score = IF \E first \in 1..MaxPip :
                          \A pip \in first..(first + last.length - 1) :
                             CountPip(last.hand, pip) > 0
                    THEN SMALL_STRAIGHT_SCORE ELSE 0

\* C24 witness: a hand with a repeated pip inside its run of four scored
C24_RepeatInsideTheRun ==
    /\ last.kind = "StraightScored"
    /\ last.length = 4
    /\ last.hand = <<1, 2, 2, 3, 4>>
    /\ last.score = SMALL_STRAIGHT_SCORE

\* ------------------------------------------------------------------------
\* Properties of the order of hands (RollSpec)
\* ------------------------------------------------------------------------
\* C25: every key of the table of probability_to_roll is in canonical
\* order, sorted by die kind and then by pip, and outcomes that are the
\* same multiset of (die, pip) are under one key, also under dice rules
\* with more than one kind of die.
C25_KeysAreCanonical ==
    (last.kind = "Roll" /\ last.outcome.kind = "Table")
    => \A table \in {last.outcome.table} :
          /\ \A hand \in DOMAIN table : hand = SortHand(hand)
          /\ \A h1, h2 \in DOMAIN table : BagOfHand(h1) = BagOfHand(h2) => h1 = h2

\* C27: the pips choose_field passes to the scorers are sorted ascending,
\* for hands that come from ViewModel::recommend and for hands of the
\* table of probability_to_roll, also when the dice are of two kinds.
C27_PipsAscending ==
    last.kind = "Scored"
    => \A i \in 1..(Len(last.pips) - 1) : last.pips[i] <= last.pips[i + 1]

\* ------------------------------------------------------------------------
\* Properties of the calls of the strategy (CallSpec)
\* ------------------------------------------------------------------------
\* Do two states agree in score, used mask and scored_yahtzee
SameButChips(a, b) ==
    a.score = b.score /\ a.used = b.used /\ a.scored_yahtzee = b.scored_yahtzee

\* Did a call of choose_reroll return a recommendation
RerollReturned ==
    last.kind = "Return" /\ last.call.fn = "choose_reroll" /\ ~IsPanic(last.value)

C28_FreshTurnHasREROLLS ==
    (/\ last.kind = "Call"
     /\ last.fn = "choose_reroll"
     /\ turn.fresh
     /\ turn.throws = 1)
    => last.n = REROLLS

\* Number of unused fields of a state
UnusedCount(s) == Len(AvailableFields(s))

\* One step down a chain of calls: from the call made to a call it makes
Descent == last.kind = "Call" /\ last'.kind = "Call"

\* C30: every call of choose_reroll or choose_field on a state with an
\* unused field terminates: along every chain of calls rerolls strictly
\* decreases within a turn and stays at -2 or above, going below zero only
\* after a chip was spent; the number of unused fields stays the same
\* within a turn and strictly decreases from one turn to the next;
\* and choose_field is never called on a state without an unused field.
\* Every call made is thus lower than its caller in the order by unused
\* fields, then choose_reroll above choose_field, then rerolls.
C30_RecursionTerminates ==
    [][Descent =>
            /\ (last.fn = "choose_reroll" /\ last'.fn = "choose_reroll")
               => /\ last'.n < last.n
                  /\ last'.n >= -2
                  /\ last'.n < 0 => last'.s.chips < RulesNamed(rules).chips
                  /\ UnusedCount(last'.s) = UnusedCount(last.s)
            /\ last.fn = "choose_field"
               => /\ last'.fn = "choose_reroll"
                  /\ last'.n = FreshTurnRerolls
                  /\ UnusedCount(last'.s) < UnusedCount(last.s)
            /\ last'.fn = "choose_field"
               => /\ UnusedCount(last'.s) >= 1
                  /\ last.fn # "choose_field"
                  /\ UnusedCount(last'.s) = UnusedCount(last.s)]_vars

\* C30 witness: a chain of calls has come through a chip reroll and a fresh
\* turn to the last call of choose_field, the one for the last field
C30_ChainToTheLastField ==
    /\ last.kind = "Call"
    /\ last.fn = "choose_field"
    /\ turn.fresh
    /\ UnusedCount(last.s) = 1
    /\ last.s.chips < RulesNamed(rules).chips

\* ------------------------------------------------------------------------
\* Properties of the keys (KeySpec)
\* ------------------------------------------------------------------------
\* C29: under one rules value two calls of a memoized function with
\* different inputs never have the same key, and calls under rules with
\* different short names never have the same key: any call of the same
\* function with the key made is the call the key was made for, under
\* rules of the same short name.
C29_KeysTellInputsApart ==
    last.kind = "Key"
    => \A name \in KeyRules :
          \A other \in {c \in KeyCalls(RulesNamed(name)) : c.fn = last.call.fn} :
             CacheKey(other, RulesNamed(name)) = last.key
             => /\ other = last.call
                /\ CacheKey(last.call, RulesNamed(name)) = last.key
                /\ last.call.fn # "probability_to_roll"
                   => RulesNamed(name).short_name = RulesNamed(rules).short_name
                /\ last.call.fn = "probability_to_roll"
                   => RulesNamed(name).dice.short_name = RulesNamed(rules).dice.short_name

\* C29 witness: the key of a call of choose_reroll whose state has a score
\* of two digits next to one of one digit, a used field and scored_yahtzee
\* set
C29_KeyOfTwoDigitScore ==
    /\ last.kind = "Key"
    /\ rules = "t"
    /\ last.key = "1,11,1,01,0t1,2,1,1,6,1,-1"

\* ------------------------------------------------------------------------
\* Properties of the stores (CacheSpec)
\* ------------------------------------------------------------------------
\* Is the worker running the body of a call, its result not yet stored
Computing(w) == workers[w] # <<>> /\ Top(w).phase \in {"body", "store"}

\* C21: at most one worker at a time computes the body of a memoized
\* function for a key: a second caller with the same key waits until the
\* result of the first is stored.
C21_OneComputationPerKey ==
    \A w1, w2 \in Workers :
       (w1 # w2 /\ Computing(w1) /\ Computing(w2))
       => ~(Top(w1).call.fn = Top(w2).call.fn /\ Top(w1).key = Top(w2).key)

\* ------------------------------------------------------------------------
\* Properties of restore_caches (RestoreSpec)
\* ------------------------------------------------------------------------
\* C22: restore_caches succeeds exactly for a file that opens, decodes
\* and was made by a version of the major and minor version of the running
\* program, whatever the patch versions; when it fails the stores are left
\* as they were; when it succeeds every entry of the file is in the stores
\* and the other entries are left as they were, and a later call whose key
\* is in the file returns the value of the file without computing it.
C22_RestoreIgnoresPatch ==
    /\ [][last'.kind = "Restore" =>
            \A file \in {last'.file} :
               /\ last'.ok <=> /\ file.opens
                               /\ file.decodes
                               /\ file.version \in Versions
                               /\ file.version[1] = offered.version[1]
                               /\ file.version[2] = offered.version[2]
               /\ ~last'.ok => memo' = memo
               /\ last'.ok =>
                    \A fn \in Functions :
                       /\ DOMAIN memo'[fn] = DOMAIN memo[fn] \cup DOMAIN file.caches[fn]
                       /\ \A key \in DOMAIN memo'[fn] :
                             memo'[fn][key] = IF key \in DOMAIN file.caches[fn]
                                              THEN file.caches[fn][key]
                                              ELSE memo[fn][key]]_vars
    /\ [](\A ret \in {last} :
            (/\ ret.kind = "Returned"
             /\ offered.file # Unobserved
             /\ ret.key \in DOMAIN offered.file.caches[ret.call.fn])
            => /\ ret.hit
               /\ ret.value = offered.file.caches[ret.call.fn][ret.key])

\* C22 witness: after the restore of a file of another patch version a call
\* of choose_reroll returned the value of the file, which no call computes
C22_RestoredValueReturned ==
    /\ last.kind = "Returned"
    /\ last.hit
    /\ last.call.fn = "choose_reroll"
    /\ offered.file # Unobserved
    /\ offered.file.version[3] > offered.version[3]
    /\ last.value = Nonsense(last.call)
    /\ last.value # choose_reroll(last.call.s, last.call.hand, last.call.n,
                                  RulesNamed(rules))

====
